---- MODULE Spec2Model ----
(***************************************************************************)
(* The daemon side of the daemon-Prime link: primeclient.Client (Connect,  *)
(* connectOnce, sendRegistration, heartbeatLoop, messageLoop,              *)
(* handleMessage, sendMessage, readMessage), handlers.Registry.Handle and  *)
(* the shutdown sequence of main.                                          *)
(*                                                                         *)
(* Time is in whole seconds.  Goroutines are interleaved at the points     *)
(* where they touch shared state: c.conn, c.daemonID, c.mu, the socket.    *)
(***************************************************************************)
EXTENDS Integers, Sequences, FiniteSets, Bags, TLC

(* ---- bounds of the model ---- *)
MaxAttempts == 8      \* dial attempts explored by SpecBackoff
MaxConns == 2         \* dial attempts explored by Spec
MaxRequests == 2      \* request frames the controller sends in SpecDispatch
MaxRacing == 1        \* request frames the controller sends in Spec
MaxEvents == 1        \* events pushed by the emitter callback
MaxBeats == 1         \* heartbeat ticks taken

MaxFrames == 3        \* frames the controller writes back-to-back in SpecStream

(* ---- program constants ---- *)
BufSize == 4096       \* size of the buffer bufio.NewReader allocates
InitialDelay == 1     \* NewClient: reconnectDelay: 1 * time.Second
MaxReconnect == 60    \* NewClient: maxReconnect: 60 * time.Second

VARIABLES
    pc,             \* position of the goroutine running Connect
    reconnectDelay, \* c.reconnectDelay, seconds
    conn,           \* c.conn: 0 is nil, k >= 1 the k-th dialled connection
    daemonID,       \* c.daemonID
    attempts,       \* calls of connectOnce so far
    ctxDone,        \* the context passed to Connect is cancelled
    mainPc,         \* position of main after it started Connect
    crash,          \* "none", or why the process died
    mu,             \* holder of c.mu (write side), Free when unlocked
    closed,         \* connections on which conn.Close() has run
    hbCancelled,    \* sessions whose cancelHeartbeat has run
    snd,            \* per goroutine that sends: position and frame
    req,            \* per dispatched request: connection, type, command_id, the
                    \* wire length at dispatch, whether Handle called a handler,
                    \* and what handleMessage saw when the handler returned
    nextReq,        \* request frames read so far
    beats,          \* heartbeat ticks taken so far
    wire,           \* per connection: what was written on the socket, in order
    first,          \* per connection: kind of the first frame read on it
    acked,          \* per connection: wire length when its first frame was read
    streak,         \* failed attempts since start or since Serving was entered
    sentFrames,     \* the objects the controller writes on one connection, in order
    stream,         \* their frames, as the bytes of the TCP stream
    arrived,        \* bytes of the stream that reached the agent's socket
    taken,          \* bytes conn.Read has handed out so far
    rpc,            \* position of the reader: between calls, in the prefix, in the payload
    rbuf,           \* unread bytes in the bufio.Reader of the running readMessage
    got,            \* bytes io.ReadFull has collected so far
    need,           \* payload length announced by the prefix
    decoded,        \* objects readMessage has returned, in order
    expired,        \* read deadlines that expired inside readMessage
    now,            \* time.Now() at the resource monitor's latest check, seconds
    lastMemAlert,   \* r.lastMemAlert, 0 is the zero time
    lastDiskAlert,  \* r.lastDiskAlert
    usage,          \* what the machine showed at that check: cpu, mem, disk, statfs
    checks,         \* calls of ResourceMonitor.check so far
    alerts,         \* events the monitor handed to Manager.Emit, in order
    files,          \* the watched directory: path -> modification time
    fileStates,     \* f.fileStates
    scans,          \* calls of FileWatcher.scan so far
    notices,        \* events the watcher handed to Manager.Emit, as a bag
    agent,          \* two agents started from two environments
    callbacks,      \* m.callbacks of the emitter manager
    emitters,       \* m.emitters
    mgrMu,          \* m.mu: writer held, readers holding, writers waiting
    emitCalls,      \* the calls of Manager.Emit, each with its position
    gor,            \* the goroutines Emit started, one record per go statement
    mctx,           \* m.ctx of the emitter manager: none, live or cancelled
    stops,          \* calls of Manager.Stop so far
    loops,          \* the Start goroutine of each emitter and its ticker
    arch,           \* the build: what int(f) gives for a float64 out of range
    disk,           \* the file a handler is asked about, and what the OS allows
    params,         \* the type and the params of the request a handler gets
    outcome,         \* what the handler returned, or its panic
    effects,        \* the system calls the handler made, with their outcome
    helper,         \* a helper-subprocess manager: m.mu, m.running, and faults
    callerPc        \* where each caller of Execute / ExecuteRaw is

connVars == <<pc, reconnectDelay, conn, daemonID, attempts, streak, first, acked>>
procVars == <<ctxDone, mainPc, crash>>
sendVars == <<mu, closed, snd, wire>>
dispVars == <<hbCancelled, req, nextReq, beats>>
clientVars == <<connVars, procVars, sendVars, dispVars>>
streamVars == <<sentFrames, stream, arrived, taken, rpc, rbuf, got, need, decoded, expired>>
monVars == <<now, lastMemAlert, lastDiskAlert, usage, checks, alerts>>
watchVars == <<files, fileStates, scans, notices>>
mgrVars == <<callbacks, emitters, mgrMu, emitCalls, gor>>
stopVars == <<mctx, stops, loops>>
handVars == <<arch, disk, params, outcome, effects>>
helpVars == <<helper, callerPc>>
hostVars == <<mgrVars, stopVars, handVars, helpVars>>
elseVars == <<clientVars, streamVars, monVars, watchVars, agent>>
exceptMgr == <<elseVars, stopVars, handVars, helpVars>>
exceptStop == <<elseVars, mgrVars, handVars, helpVars>>
exceptHand == <<elseVars, mgrVars, stopVars, helpVars>>
exceptHelp == <<elseVars, mgrVars, stopVars, handVars>>
sideVars == <<monVars, watchVars, agent, hostVars>>
vars == <<clientVars, streamVars, sideVars>>

Min(a, b) == IF a < b THEN a ELSE b

RECURSIVE Pow2(_)
Pow2(n) == IF n = 0 THEN 1 ELSE 2 * Pow2(n - 1)

ConnIds == 1..MaxAttempts

(* ---- goroutines that call sendMessage ---- *)
Free == <<"free", 0>>
RegSender == <<"reg", 0>>                    \* Connect, in sendRegistration
HbSender(k) == <<"hb", k>>                   \* heartbeatLoop of session k
ReqSender(i) == <<"h", i>>                   \* handleMessage of request i
EvSender(j) == <<"ev", j>>                   \* emitter callback -> SendEvent
Senders ==
    {RegSender} \cup {HbSender(k) : k \in ConnIds}
        \cup {ReqSender(i) : i \in 1..MaxRequests}
        \cup {EvSender(j) : j \in 1..MaxEvents}

(* ---- frames: the keys of the JSON object that matter here ---- *)
Absent == "-"
Frame(t, d, c, s, e) ==
    [type |-> t, daemon_id |-> d, command_id |-> c, success |-> s, error |-> e]
NoCommand == Absent
NoFrame == Frame(Absent, Absent, NoCommand, Absent, Absent)

Alive == crash = "none" /\ mainPc # "exited"

\* Percentages of cpu, memory and disk in use, and whether statfs worked.
Usage(c, m, d, ok) == [cpu |-> c, mem |-> m, disk |-> d, statfs |-> ok]
NoUsage == Usage(0, 0, 0, TRUE)

InitClient ==
    /\ pc = "loop"
    /\ reconnectDelay = InitialDelay
    /\ conn = 0
    /\ daemonID = ""
    /\ attempts = 0
    /\ ctxDone = FALSE
    /\ mainPc = "wait"
    /\ crash = "none"
    /\ mu = Free
    /\ closed = {}
    /\ hbCancelled = {}
    /\ snd = [s \in Senders |->
                 [pc |-> IF s[1] = "hb" THEN "off" ELSE "idle", msg |-> NoFrame]]
    /\ req = [i \in 1..MaxRequests |-> [conn |-> 0, type |-> Absent, command_id |-> NoCommand,
                                         at |-> 0, called |-> FALSE,
                                         id |-> Absent, up |-> FALSE]]
    /\ nextReq = 0
    /\ beats = 0
    /\ wire = [k \in ConnIds |-> <<>>]
    /\ first = [k \in ConnIds |-> "none"]
    /\ acked = [k \in ConnIds |-> 0]
    /\ streak = <<>>

\* The emitters are not started and no second agent is compared.
MonitorOff ==
    /\ now = 0 /\ lastMemAlert = 0 /\ lastDiskAlert = 0
    /\ usage = NoUsage /\ checks = 0 /\ alerts = <<>>
WatcherOff ==
    /\ files = <<>> /\ fileStates = <<>> /\ scans = 0 /\ notices = EmptyBag
MgrOff ==
    /\ callbacks = <<>> /\ emitters = <<>> /\ emitCalls = <<>> /\ gor = <<>>
    /\ mgrMu = [writer |-> FALSE, readers |-> 0, pending |-> 0]
StopOff == mctx = "none" /\ stops = 0 /\ loops = <<>>
HandOff ==
    /\ arch = "" /\ disk = <<>> /\ params = <<>> /\ outcome = <<>> /\ effects = {}
HelpOff == helper = <<>> /\ callerPc = <<>>
HostOff == MgrOff /\ StopOff /\ HandOff /\ HelpOff
SideOff == MonitorOff /\ WatcherOff /\ agent = <<>> /\ HostOff

\* No byte stream is followed.
StreamOff ==
    /\ sentFrames = <<>> /\ stream = <<>> /\ arrived = 0 /\ taken = 0
    /\ rpc = "idle" /\ rbuf = <<>> /\ got = <<>> /\ need = 0 /\ decoded = <<>>
    /\ expired = 0

Init == InitClient /\ StreamOff /\ SideOff

(***************************************************************************)
(* Connect: the reconnect loop (client.go 96-122).                         *)
(***************************************************************************)

\* The select at the top of the loop finds ctx live: connectOnce is called.
ConnectLoop(limit) ==
    /\ UNCHANGED <<streamVars, sideVars>>
    /\ Alive /\ pc = "loop" /\ ~ctxDone
    /\ attempts < limit
    /\ pc' = "dial"
    /\ attempts' = attempts + 1
    /\ UNCHANGED <<reconnectDelay, conn, daemonID, streak, first, acked>>
    /\ UNCHANGED <<procVars, sendVars, dispVars>>

\* The select at the top of the loop finds ctx.Done(): return ctx.Err().
ConnectReturn ==
    /\ UNCHANGED <<streamVars, sideVars>>
    /\ Alive /\ pc = "loop" /\ ctxDone
    /\ pc' = "returned"
    /\ UNCHANGED <<reconnectDelay, conn, daemonID, attempts, streak, first, acked>>
    /\ UNCHANGED <<procVars, sendVars, dispVars>>

\* A doubling that forgets the ceiling.
NextDelayUncapped(d) == d * 2

\* c.reconnectDelay *= 2, capped at c.maxReconnect.
NextDelay(d) == IF d * 2 > MaxReconnect THEN MaxReconnect ELSE d * 2

\* The backoff select: time.After(c.reconnectDelay) fires, then the delay grows.
BackoffWait ==
    /\ UNCHANGED <<streamVars, sideVars>>
    /\ Alive /\ pc = "backoff"
    /\ reconnectDelay' = NextDelay(reconnectDelay)
    /\ pc' = "loop"
    /\ UNCHANGED <<conn, daemonID, attempts, streak, first, acked>>
    /\ UNCHANGED <<procVars, sendVars, dispVars>>

\* The backoff select: ctx.Done() wins.
BackoffCancel ==
    /\ UNCHANGED <<streamVars, sideVars>>
    /\ Alive /\ pc = "backoff" /\ ctxDone
    /\ pc' = "returned"
    /\ UNCHANGED <<reconnectDelay, conn, daemonID, attempts, streak, first, acked>>
    /\ UNCHANGED <<procVars, sendVars, dispVars>>

(***************************************************************************)
(* connectOnce (client.go 124-162).                                        *)
(***************************************************************************)

RegistrationFrame == Frame("registration", Absent, NoCommand, Absent, Absent)

\* d.DialContext fails: connectOnce returns "dial failed", nothing deferred.
DialFail ==
    /\ UNCHANGED <<streamVars, sideVars>>
    /\ Alive /\ pc = "dial"
    /\ pc' = "backoff"
    /\ streak' = Append(streak, "dial")
    /\ UNCHANGED <<reconnectDelay, conn, daemonID, attempts, first, acked>>
    /\ UNCHANGED <<procVars, sendVars, dispVars>>

\* A connectOnce that leaves the delay as the failures made it.
DelayKeptAfterDial(d) == d

\* The delay connectOnce leaves once the dial has succeeded (line 148).
DelayAfterDial(d) == InitialDelay

\* The dial succeeds: c.conn is set under c.mu, the delay is reset, and
\* sendRegistration starts its sendMessage.
DialOk ==
    /\ UNCHANGED <<streamVars, sideVars>>
    /\ Alive /\ pc = "dial" /\ ~ctxDone
    /\ mu = Free
    /\ conn' = attempts
    /\ reconnectDelay' = DelayAfterDial(reconnectDelay)
    /\ pc' = "reg"
    /\ snd' = [snd EXCEPT ![RegSender] = [pc |-> "check", msg |-> RegistrationFrame]]
    /\ UNCHANGED <<daemonID, attempts, streak, first, acked>>
    /\ UNCHANGED <<procVars, mu, closed, wire, dispVars>>

\* The deferred function of connectOnce, first half: cancelHeartbeat (when the
\* session had reached the heartbeat) and conn.Close().
HbCancelledAfter(k, started) == IF started THEN hbCancelled \cup {k} ELSE hbCancelled

\* The deferred function, second half: c.conn = nil under c.mu; connectOnce
\* returns and Connect reaches its backoff select.
TeardownUnset ==
    /\ UNCHANGED <<streamVars, sideVars>>
    /\ Alive /\ pc = "unset"
    /\ mu = Free
    /\ conn' = 0
    /\ pc' = "backoff"
    /\ UNCHANGED <<reconnectDelay, daemonID, attempts, streak, first, acked>>
    /\ UNCHANGED <<procVars, sendVars, dispVars>>

(***************************************************************************)
(* sendMessage (client.go 333-362), one call per sender at a time.         *)
(***************************************************************************)

\* A handleMessage that sends its result again after sending it.
AfterSendResend(s, ok) ==
    IF s[1] = "hb" THEN "idle" ELSE IF s[1] = "h" /\ ok THEN "check"
    ELSE IF ok THEN "sent" ELSE "failed"

\* Where a sender goes when its sendMessage has returned: heartbeatLoop logs
\* the error and waits for the next tick, the others keep the outcome.
AfterSend(s, ok) ==
    IF s[1] = "hb" THEN "idle" ELSE IF ok THEN "sent" ELSE "failed"

WireItem(half, s) == [half |-> half, by |-> s, msg |-> snd[s].msg]

\* Lines 342-345: json.Marshal(msg) fails for a map that holds a NaN.
Marshalable(m) == m.success # "NaN"

\* A sendMessage that goes on to the write whatever c.conn is.
NotConnectedIgnored(c) == FALSE

\* Lines 338-340: conn == nil.
NotConnected(c) == c = 0

\* Lines 334-345: conn := c.conn under RLock; nil means "not connected";
\* then the message is marshalled, and an error of that is returned too.
SendCheck(s) ==
    /\ UNCHANGED <<streamVars, sideVars>>
    /\ Alive /\ snd[s].pc = "check"
    /\ mu = Free
    /\ snd' = [snd EXCEPT ![s].pc =
                  IF NotConnected(conn) \/ ~Marshalable(snd[s].msg)
                  THEN AfterSend(s, FALSE) ELSE "lock"]
    /\ UNCHANGED <<connVars, procVars, mu, closed, wire, dispVars>>

\* A sendMessage that takes c.mu for each Write separately.
ReleasedAfterLength(s) == Free

\* Who holds c.mu once sendMessage has written the length prefix (line 351:
\* the lock is held until sendMessage returns).
HolderAfterLength(s) == s

\* Lines 351-356: c.mu.Lock(), then c.conn.Write(length) on whatever c.conn is
\* now: a nil c.conn is a nil-pointer panic, a closed one a write error.
SendLength(s) ==
    /\ UNCHANGED <<streamVars, sideVars>>
    /\ Alive /\ snd[s].pc = "lock"
    /\ mu = Free
    /\ IF conn = 0
       THEN /\ crash' = "nil_conn"
            /\ UNCHANGED <<ctxDone, mainPc, sendVars>>
       ELSE IF conn \in closed
       THEN /\ snd' = [snd EXCEPT ![s].pc = AfterSend(s, FALSE)]
            /\ UNCHANGED <<procVars, mu, closed, wire>>
       ELSE /\ wire' = [wire EXCEPT ![conn] = Append(@, WireItem("len", s))]
            /\ mu' = HolderAfterLength(s)
            /\ snd' = [snd EXCEPT ![s].pc = "data"]
            /\ UNCHANGED <<procVars, closed>>
    /\ UNCHANGED <<connVars, dispVars>>

\* Lines 357-361: c.conn.Write(data), then the deferred c.mu.Unlock().
SendData(s) ==
    /\ UNCHANGED <<streamVars, sideVars>>
    /\ Alive /\ snd[s].pc = "data"
    /\ IF conn = 0
       THEN /\ crash' = "nil_conn"
            /\ UNCHANGED <<ctxDone, mainPc, sendVars>>
       ELSE IF conn \in closed
       THEN /\ snd' = [snd EXCEPT ![s].pc = AfterSend(s, FALSE)]
            /\ mu' = IF mu = s THEN Free ELSE mu
            /\ UNCHANGED <<procVars, closed, wire>>
       ELSE /\ wire' = [wire EXCEPT ![conn] = Append(@, WireItem("data", s))]
            /\ mu' = IF mu = s THEN Free ELSE mu
            /\ snd' = [snd EXCEPT ![s].pc = AfterSend(s, TRUE)]
            /\ UNCHANGED <<procVars, closed>>
    /\ UNCHANGED <<connVars, dispVars>>

(***************************************************************************)
(* sendRegistration (client.go 164-199) and the rest of connectOnce.       *)
(***************************************************************************)

\* What the controller may answer, and the daemon_id an ack may carry
\* (Absent: the ack has no daemon_id string).
AckKinds == {"ack_ok", "ack_reject", "other", "error"}
AckIds == {"d1", "d2", Absent}

\* A check of the frame type alone, without the success flag.
RegistrationAcceptedAnyAck(kind) == kind \in {"ack_ok", "ack_reject"}

\* Lines 185-191: the first frame must be a registration_ack with success true.
RegistrationAccepted(kind) == kind = "ack_ok"

\* sendMessage of the registration frame failed: "registration failed".
RegistrationSendFailed ==
    /\ UNCHANGED <<streamVars, sideVars>>
    /\ Alive /\ pc = "reg" /\ snd[RegSender].pc = "failed"
    /\ pc' = "unset"
    /\ closed' = closed \cup {conn}
    /\ streak' = Append(streak, "reg")
    /\ snd' = [snd EXCEPT ![RegSender].pc = "idle"]
    /\ UNCHANGED <<reconnectDelay, conn, daemonID, attempts, first, acked>>
    /\ UNCHANGED <<procVars, mu, wire, dispVars>>

\* readMessage returns the first frame of the connection (kind "error": it
\* returns an error instead: EOF, closed socket, payload that is not JSON).
\* Accepted: daemonID is taken from the ack, the heartbeat goroutine starts
\* and messageLoop is entered.  Otherwise connectOnce returns an error and
\* its deferred function closes the connection.
\* Lines 239-249: the select at the top of messageLoop.  With ctx cancelled
\* the loop returns at once and the deferred calls of connectOnce run
\* cancelHeartbeat and conn.Close(); otherwise the loop sets the deadline
\* and waits in readMessage.
LoopTop ==
    IF ctxDone
    THEN /\ pc' = "unset"
         /\ closed' = closed \cup {conn}
         /\ hbCancelled' = HbCancelledAfter(conn, TRUE)
    ELSE /\ pc' = "serve"
         /\ UNCHANGED <<closed, hbCancelled>>

ReadAck(kind, id) ==
    /\ UNCHANGED <<streamVars, sideVars>>
    /\ Alive /\ pc = "reg" /\ snd[RegSender].pc = "sent"
    /\ mu = Free
    /\ kind # "error" => conn \notin closed
    /\ first' = [first EXCEPT ![conn] = kind]
    /\ acked' = [acked EXCEPT ![conn] = Len(wire[conn])]
    /\ IF RegistrationAccepted(kind)
       THEN /\ daemonID' = IF id # Absent THEN id ELSE daemonID
            /\ streak' = <<>>
            /\ snd' = [snd EXCEPT ![RegSender].pc = "idle", ![HbSender(conn)].pc = "idle"]
            /\ LoopTop
       ELSE /\ pc' = "unset"
            /\ closed' = closed \cup {conn}
            /\ streak' = Append(streak, "reg")
            /\ snd' = [snd EXCEPT ![RegSender].pc = "idle"]
            /\ UNCHANGED <<daemonID, hbCancelled>>
    /\ UNCHANGED <<reconnectDelay, conn, attempts>>
    /\ UNCHANGED <<procVars, mu, wire, req, nextReq, beats>>

(***************************************************************************)
(* messageLoop (client.go 238-264).                                        *)
(***************************************************************************)

RequestTypes == {"ping", "shell", "read_file", "plugin", "teleport"}
CommandId(i) == "c-" \o ToString(i)

\* A messageLoop that calls handleMessage itself and reads on afterwards.
ReaderWaitsForHandler ==
    pc = "serve" /\ \A i \in 1..MaxRequests : snd[ReqSender(i)].pc # "run"

\* Line 262: the go statement hands the frame to a new goroutine, so the
\* loop is back at readMessage whatever the handlers are doing.
ReaderReady == pc = "serve"

\* readMessage returns a frame: go c.handleMessage(msg).  The loop does not
\* look at ctx between the return of the read and the dispatch, only when
\* it is back at its top.
ServeRequest(t, limit) ==
    /\ UNCHANGED <<streamVars, sideVars>>
    /\ Alive /\ ReaderReady
    /\ mu = Free
    /\ conn \notin closed
    /\ nextReq < limit /\ nextReq < MaxRequests
    /\ nextReq' = nextReq + 1
    /\ req' = [req EXCEPT ![nextReq + 1] =
                  [conn |-> conn, type |-> t, command_id |-> CommandId(nextReq + 1),
                   at |-> Len(wire[conn]), called |-> FALSE,
                   id |-> Absent, up |-> FALSE]]
    /\ snd' = [snd EXCEPT ![ReqSender(nextReq + 1)].pc = "run"]
    /\ LoopTop
    /\ UNCHANGED <<reconnectDelay, conn, daemonID, attempts, streak, first, acked>>
    /\ UNCHANGED <<procVars, mu, wire, beats>>

\* readMessage returns io.EOF or another error that is no timeout:
\* messageLoop returns, and the deferred calls of connectOnce run
\* cancelHeartbeat and conn.Close().
ServeEnd ==
    /\ UNCHANGED <<streamVars, sideVars>>
    /\ Alive /\ pc = "serve"
    /\ pc' = "unset"
    /\ closed' = closed \cup {conn}
    /\ hbCancelled' = HbCancelledAfter(conn, TRUE)
    /\ UNCHANGED <<reconnectDelay, conn, daemonID, attempts, streak, first, acked>>
    /\ UNCHANGED <<procVars, mu, snd, wire, req, nextReq, beats>>

\* The select at the top of messageLoop finds ctx.Done() (the 60 s read
\* deadline brings the loop back there even when no frame arrives):
\* messageLoop returns ctx.Err(), and the deferred calls run as above.
ServeCancel ==
    /\ UNCHANGED <<streamVars, sideVars>>
    /\ Alive /\ pc = "serve" /\ ctxDone
    /\ pc' = "unset"
    /\ closed' = closed \cup {conn}
    /\ hbCancelled' = HbCancelledAfter(conn, TRUE)
    /\ UNCHANGED <<reconnectDelay, conn, daemonID, attempts, streak, first, acked>>
    /\ UNCHANGED <<procVars, mu, snd, wire, req, nextReq, beats>>

(***************************************************************************)
(* handlers.Registry.Handle (registry.go 35-48) and handleMessage          *)
(* (client.go 266-300).                                                    *)
(***************************************************************************)

\* Types with a registered handler; "plugin" stands for a handler added
\* through Registry.Register, "teleport" for a type nobody registered.
Registered == {"ping", "shell", "read_file", "docker", "plugin"}

\* Handlers that start an external process, and those of them that run it
\* under context.WithTimeout (handleShell, and handleExec through it): once
\* the deadline has passed the process is killed and the handler returns.
\* handleDocker, handleGit, handleListProcesses and handleManageService call
\* exec.Command(...).CombinedOutput() and return when the process ends.
External == {"shell", "exec", "list_processes", "docker", "git", "manage_service"}
Deadlined(t) == t \in {"shell", "exec"}

\* What a handler can do with its parameters.  read_file slices
\* lines[start:end] with start taken from "offset" unchecked, which panics
\* for a negative offset; a Handler may return a nil map, or a map with a
\* value json.Marshal rejects (a NaN float).
Behaviours(t) ==
    CASE t = "ping" -> {"ok"}
      [] t = "shell" -> {"fail", "timeout"}
      [] t = "read_file" -> {"ok", "panic"}
      [] t = "docker" -> {"ok", "fail"}
      [] t = "plugin" -> {"rogue", "nil", "nan"}
      [] OTHER -> {"unregistered"}

AllBehaviours == {"ok", "fail", "timeout", "panic", "rogue", "nil", "nan", "unregistered"}

\* The map a handler returns.
HandlerResult(b) ==
    CASE b = "ok" -> Frame(Absent, Absent, Absent, "true", Absent)
      [] b = "fail" -> Frame(Absent, Absent, Absent, "false", "exit status 1")
      [] b = "timeout" -> Frame(Absent, Absent, Absent, "false", "timeout")
      [] b = "nan" -> Frame(Absent, Absent, Absent, "NaN", Absent)
      [] OTHER -> Frame("event", "d-x", "c-x", "true", Absent)

\* An unknown-command result that does not say which type was unknown.
UnknownResultUnnamed(t) ==
    Frame(Absent, Absent, Absent, "false", "unknown command type")

\* Lines 40-45: the result Registry.Handle makes up for a type it has no
\* handler for.
UnknownResult(t) ==
    Frame(Absent, Absent, Absent, "false", "unknown command type: " \o t)

\* Line 37: the lookup in r.handlers; only a type that is there has its
\* handler called (line 47).
HandlerCalled(t) == t \in Registered

\* Registry.Handle: the unknown-command result, or whatever the handler does.
Handle(t, b) == IF ~HandlerCalled(t) THEN UnknownResult(t) ELSE HandlerResult(b)

\* Whether the call handler(params) ends the process: nothing recovers a
\* panic of the handler, and writing result["command_id"] into a nil map
\* panics in handleMessage.
HandlerCrash(t, b) ==
    IF ~HandlerCalled(t) THEN "none"
    ELSE IF b = "panic" THEN "handler_panic"
    ELSE IF b = "nil" THEN "nil_result"
    ELSE "none"

\* A handleMessage that fills in only the keys the handler left out.
KeepHandlerKeys(result, commandID, id) ==
    [result EXCEPT !.command_id = IF @ = Absent THEN commandID ELSE @,
                   !.daemon_id = IF @ = Absent THEN id ELSE @,
                   !.type = IF @ = Absent THEN "result" ELSE @]

\* A handleMessage that sends a bare result for a failure.
DropErrorOfFailure(result, commandID, id) ==
    [result EXCEPT !.command_id = commandID, !.daemon_id = id, !.type = "result",
                   !.error = Absent]

\* Lines 291-294: the three keys handleMessage writes into the result.
HandleMessageResult(result, commandID, id) ==
    [result EXCEPT !.command_id = commandID, !.daemon_id = id, !.type = "result"]

\* The handler of request i returns (or panics); handleMessage completes the
\* result with the current c.daemonID and calls sendMessage.
HandlerReturn(i, b) ==
    /\ UNCHANGED <<streamVars, sideVars>>
    /\ Alive /\ snd[ReqSender(i)].pc = "run"
    /\ b \in Behaviours(req[i].type)
    /\ IF HandlerCrash(req[i].type, b) # "none"
       THEN /\ crash' = HandlerCrash(req[i].type, b)
            /\ UNCHANGED <<ctxDone, mainPc, snd>>
       ELSE /\ snd' = [snd EXCEPT ![ReqSender(i)] =
                   [pc |-> "check",
                    msg |-> HandleMessageResult(Handle(req[i].type, b),
                                                req[i].command_id, daemonID)]]
            /\ UNCHANGED procVars
    /\ req' = [req EXCEPT ![i].id = daemonID, ![i].up = (req[i].conn \notin closed),
                           ![i].called = HandlerCalled(req[i].type)]
    /\ UNCHANGED <<connVars, mu, closed, wire, hbCancelled, nextReq, beats>>

(***************************************************************************)
(* heartbeatLoop / sendHeartbeat (client.go 201-236) and SendEvent         *)
(* (client.go 303-313) called from the emitter callback of main.           *)
(***************************************************************************)

HeartbeatFrame(id) == Frame("heartbeat", id, Absent, Absent, Absent)
EventFrame(id) == Frame("event", id, Absent, Absent, Absent)

HbStopped(k) == k \in hbCancelled \/ ctxDone

\* The select of heartbeatLoop takes a tick: sendHeartbeat.
HeartbeatTick(k) ==
    /\ UNCHANGED <<streamVars, sideVars>>
    /\ Alive /\ snd[HbSender(k)].pc = "idle"
    /\ beats < MaxBeats
    /\ beats' = beats + 1
    /\ snd' = [snd EXCEPT ![HbSender(k)] = [pc |-> "check", msg |-> HeartbeatFrame(daemonID)]]
    /\ UNCHANGED <<connVars, procVars, mu, closed, wire, hbCancelled, req, nextReq>>

\* The select of heartbeatLoop takes ctx.Done(): the goroutine ends.
HeartbeatExit(k) ==
    /\ UNCHANGED <<streamVars, sideVars>>
    /\ Alive /\ snd[HbSender(k)].pc = "idle"
    /\ HbStopped(k)
    /\ snd' = [snd EXCEPT ![HbSender(k)].pc = "dead"]
    /\ UNCHANGED <<connVars, procVars, mu, closed, wire, dispVars>>

\* An emitter fires while the emitters run: the callback calls SendEvent,
\* which stamps the event with the current c.daemonID.
EmitEvent(j) ==
    /\ UNCHANGED <<streamVars, sideVars>>
    /\ Alive /\ mainPc \in {"wait", "stop"}
    /\ snd[EvSender(j)].pc = "idle"
    /\ \A h \in 1..(j - 1) : snd[EvSender(h)].pc # "idle"
    /\ snd' = [snd EXCEPT ![EvSender(j)] = [pc |-> "check", msg |-> EventFrame(daemonID)]]
    /\ UNCHANGED <<connVars, procVars, mu, closed, wire, dispVars>>

(***************************************************************************)
(* main after it has started Connect (main.go 91-105).                     *)
(***************************************************************************)

\* A signal arrives: cancel().
Cancel ==
    /\ UNCHANGED <<streamVars, sideVars>>
    /\ Alive /\ mainPc = "wait"
    /\ ctxDone' = TRUE
    /\ mainPc' = "stop"
    /\ UNCHANGED <<connVars, crash, sendVars, dispVars>>

\* emitterManager.Stop(), then client.Close(): c.conn.Close() under c.mu.
MainClose ==
    /\ UNCHANGED <<streamVars, sideVars>>
    /\ Alive /\ mainPc = "stop"
    /\ mu = Free
    /\ closed' = IF conn # 0 THEN closed \cup {conn} ELSE closed
    /\ mainPc' = "closed"
    /\ UNCHANGED <<connVars, ctxDone, crash, mu, snd, wire, dispVars>>

\* main returns: the process ends with whatever goroutines are left.
MainExit ==
    /\ UNCHANGED <<streamVars, sideVars>>
    /\ Alive /\ mainPc = "closed"
    /\ mainPc' = "exited"
    /\ UNCHANGED <<connVars, ctxDone, crash, sendVars, dispVars>>

(***************************************************************************)
(* The framing: sendMessage's encoding (client.go 342-358) and readMessage *)
(* (client.go 364-394), byte by byte.  One controller writes sentFrames    *)
(* back-to-back; TCP delivers the bytes in pieces of any size.             *)
(***************************************************************************)

\* The JSON objects followed here: a type and, for some, one integer value
\* 2^53 + k, held as <<k>> (<<>> when the object has no number).
MaxOffset == 3            \* the integers followed are 2^53 .. 2^53 + MaxOffset
Obj(t, num) == [type |-> t, num |-> num]
Objects == {Obj("ack", <<>>), Obj("ping", <<>>), Obj("shell", <<>>)}
Messages == Objects \cup {Obj("ping", <<k>>) : k \in 0..MaxOffset}

\* The decimal digits of 2^53 + k = 9007199254740992 + k.
Digits(k) ==
    <<57, 48, 48, 55, 49, 57, 57, 50, 53, 52, 55, 52, 48, 57, 57>> \o <<50 + k>>

\* Their encodings: '{' body '}'.
Body(o) ==
    (CASE o.type = "ack" -> <<97>>
       [] o.type = "ping" -> <<112, 105>>
       [] OTHER -> <<115, 104, 108>>)
        \o (IF o.num = <<>> THEN <<>> ELSE Digits(o.num[1]))
Marshal(o) == <<123>> \o Body(o) \o <<125>>

Invalid == Obj("invalid", <<>>)

\* json.Unmarshal into map[string]interface{} stores every number as a
\* float64: above 2^53 only the even integers exist, and an odd one goes to
\* the neighbour whose mantissa is even.
Float64(k) ==
    IF k % 2 = 0 THEN k
    ELSE IF ((k - 1) \div 2) % 2 = 0 THEN k - 1 ELSE k + 1

Parsed(o) == IF o.num = <<>> THEN o ELSE Obj(o.type, <<Float64(o.num[1])>>)

\* json.Unmarshal: the object whose encoding the bytes are, or an error.
Unmarshal(bytes) ==
    IF \E o \in Messages : Marshal(o) = bytes
    THEN Parsed(CHOOSE o \in Messages : Marshal(o) = bytes)
    ELSE Invalid

\* binary.BigEndian.PutUint32 / Uint32.
PutUint32(n) == <<n \div 16777216, (n \div 65536) % 256, (n \div 256) % 256, n % 256>>
Uint32(b) == b[1] * 16777216 + b[2] * 65536 + b[3] * 256 + b[4]

\* One frame on the wire: the 4-byte length, then the payload.
EncodeFrame(o) == PutUint32(Len(Marshal(o))) \o Marshal(o)

RECURSIVE EncodeAll(_)
EncodeAll(fs) == IF fs = <<>> THEN <<>> ELSE EncodeFrame(Head(fs)) \o EncodeAll(Tail(fs))

\* More bytes of the stream reach the agent's socket.
Arrive(n) ==
    /\ arrived + n <= Len(stream)
    /\ arrived' = arrived + n
    /\ UNCHANGED <<sentFrames, stream, taken, rpc, rbuf, got, need, decoded, expired>>
    /\ UNCHANGED <<clientVars, sideVars>>

\* What is left of the read buffer when readMessage returns: the
\* bufio.Reader is local to the call (line 373), so its unread bytes go
\* with it.
BufferAfterReturn(rest) == <<>>

\* One Read of the bufio.Reader on behalf of io.ReadFull.  An empty buffer
\* is filled by a single conn.Read of up to BufSize bytes (a request of
\* BufSize bytes or more is read straight into the caller's slice); then as
\* much as is wanted is copied out.  A complete prefix gives the payload
\* length; a complete payload is unmarshalled and readMessage returns.  The
\* caller (sendRegistration first, then messageLoop) calls readMessage again
\* after a frame and stops at an error.
ReadStep ==
    /\ rpc \in {"len", "data"}
    /\ rbuf # <<>> \/ arrived > taken
    /\ LET want == IF rpc = "len" THEN 4 - Len(got) ELSE need - Len(got)
           fromSocket ==
               IF rbuf # <<>> THEN 0
               ELSE Min(arrived - taken, IF want >= BufSize THEN want ELSE BufSize)
           buffered ==
               IF rbuf # <<>> THEN rbuf ELSE SubSeq(stream, taken + 1, taken + fromSocket)
           copied == Min(want, Len(buffered))
           got1 == got \o SubSeq(buffered, 1, copied)
           rest == SubSeq(buffered, copied + 1, Len(buffered))
       IN  /\ taken' = taken + fromSocket
           /\ IF copied < want
              THEN /\ got' = got1 /\ rbuf' = rest
                   /\ UNCHANGED <<rpc, need, decoded>>
              ELSE IF rpc = "len"
              THEN /\ need' = Uint32(got1)
                   /\ got' = <<>>
                   /\ rbuf' = rest
                   /\ rpc' = IF Uint32(got1) = 0 THEN "stopped" ELSE "data"
                   /\ UNCHANGED decoded
              ELSE /\ got' = <<>>
                   /\ rbuf' = BufferAfterReturn(rest)
                   /\ UNCHANGED need
                   /\ IF Unmarshal(got1) = Invalid
                      THEN rpc' = "stopped" /\ UNCHANGED decoded
                      ELSE rpc' = "len" /\ decoded' = Append(decoded, Unmarshal(got1))
    /\ UNCHANGED <<sentFrames, stream, arrived, expired>>
    /\ UNCHANGED <<clientVars, sideVars>>

(***************************************************************************)
(* Specifications.                                                         *)
(***************************************************************************)

\* The session and the goroutines that send on it, racing with one another
\* and with reconnects; the controller mints a new daemon_id per session.
MintedId(k) == "d" \o ToString(k)

Next ==
    \/ ConnectLoop(MaxConns)
    \/ BackoffWait
    \/ DialFail
    \/ DialOk
    \/ TeardownUnset
    \/ \E s \in Senders : SendCheck(s)
    \/ \E s \in Senders : SendLength(s)
    \/ \E s \in Senders : SendData(s)
    \/ \E kind \in AckKinds : ReadAck(kind, MintedId(conn))
    \/ \E t \in {"ping", "read_file"} : ServeRequest(t, MaxRacing)
    \/ ServeEnd
    \/ \E i \in 1..MaxRequests, b \in AllBehaviours : HandlerReturn(i, b)
    \/ \E k \in ConnIds : HeartbeatTick(k)
    \/ \E k \in ConnIds : HeartbeatExit(k)
    \/ \E j \in 1..MaxEvents : EmitEvent(j)

Spec == Init /\ [][Next]_vars

\* The reconnect loop alone, for many attempts: no requests, heartbeats or
\* events, and main sends no signal.
NextBackoff ==
    \/ ConnectLoop(MaxAttempts)
    \/ BackoffWait
    \/ DialFail
    \/ DialOk
    \/ TeardownUnset
    \/ SendCheck(RegSender)
    \/ SendLength(RegSender)
    \/ SendData(RegSender)
    \/ \E kind \in {"ack_ok", "ack_reject"} : ReadAck(kind, "d1")
    \/ ServeEnd

SpecBackoff == Init /\ [][NextBackoff]_vars

\* One session and the dispatch of several requests of every type on it.
NextDispatch ==
    \/ ConnectLoop(1)
    \/ BackoffWait
    \/ DialFail
    \/ DialOk
    \/ TeardownUnset
    \/ \E s \in Senders : SendCheck(s)
    \/ \E s \in Senders : SendLength(s)
    \/ \E s \in Senders : SendData(s)
    \/ \E kind \in AckKinds, id \in AckIds : ReadAck(kind, id)
    \/ \E t \in RequestTypes : ServeRequest(t, MaxRequests)
    \/ ServeEnd
    \/ \E i \in 1..MaxRequests, b \in AllBehaviours : HandlerReturn(i, b)

SpecDispatch == Init /\ [][NextDispatch]_vars

\* The life of Connect from start to shutdown: reconnects, the heartbeat
\* goroutine of each session, a request to a plugged-in handler, and main
\* cancelling, closing and exiting.
NextLife ==
    \/ ConnectLoop(MaxConns)
    \/ ConnectReturn
    \/ BackoffWait
    \/ BackoffCancel
    \/ DialFail
    \/ DialOk
    \/ TeardownUnset
    \/ \E s \in Senders : SendCheck(s)
    \/ \E s \in Senders : SendLength(s)
    \/ \E s \in Senders : SendData(s)
    \/ RegistrationSendFailed
    \/ \E kind \in AckKinds : ReadAck(kind, MintedId(conn))
    \/ \E t \in {"plugin"} : ServeRequest(t, MaxRacing)
    \/ ServeEnd
    \/ ServeCancel
    \/ \E i \in 1..MaxRequests, b \in AllBehaviours : HandlerReturn(i, b)
    \/ \E k \in ConnIds : HeartbeatTick(k)
    \/ \E k \in ConnIds : HeartbeatExit(k)
    \/ Cancel
    \/ MainClose
    \/ MainExit

\* What the Go scheduler and the runtime's timers guarantee: a goroutine that
\* can take its next step takes it, a timer or a read deadline fires, a dial
\* ends one way or the other.  Nothing is assumed of the controller (ReadAck,
\* ServeRequest, ServeEnd), of the handlers, of the ticker or of signals.
ConnectStep ==
    \/ ConnectLoop(MaxConns)
    \/ ConnectReturn
    \/ BackoffWait
    \/ BackoffCancel
    \/ DialFail
    \/ DialOk
    \/ TeardownUnset
    \/ RegistrationSendFailed
    \/ ServeCancel

SendStep == \E s \in Senders : SendCheck(s) \/ SendLength(s) \/ SendData(s)

SpecLife ==
    Init /\ [][NextLife]_vars /\ WF_vars(ConnectStep) /\ WF_vars(SendStep)

\* One session with requests to the handlers that run an external process.
\* The process ends when it ends; a handler that set a deadline returns at
\* the latest when the deadline has passed.
NextProcess ==
    \/ ConnectLoop(1)
    \/ BackoffWait
    \/ DialFail
    \/ DialOk
    \/ TeardownUnset
    \/ \E s \in Senders : SendCheck(s)
    \/ \E s \in Senders : SendLength(s)
    \/ \E s \in Senders : SendData(s)
    \/ \E kind \in AckKinds : ReadAck(kind, MintedId(conn))
    \/ \E t \in {"shell", "docker"} : ServeRequest(t, MaxRequests)
    \/ ServeEnd
    \/ \E i \in 1..MaxRequests, b \in AllBehaviours : HandlerReturn(i, b)

DeadlineStep ==
    \E i \in 1..MaxRequests, b \in AllBehaviours :
        Deadlined(req[i].type) /\ HandlerReturn(i, b)

SpecProcess ==
    /\ Init /\ [][NextProcess]_vars
    /\ WF_vars(ConnectStep) /\ WF_vars(SendStep) /\ WF_vars(DeadlineStep)

\* The largest payload the wire format allows (64 MiB), and the length
\* prefix of a frame that announces one byte more.
MaxMessageSize == 64 * 1024 * 1024
OversizedPrefix == PutUint32(MaxMessageSize + 1)

\* The reader of one connection: the controller answers the registration
\* with an ack and writes up to MaxFrames - 1 more frames behind it, and
\* after them possibly the prefix of an oversized frame.
InitStream ==
    /\ InitClient
    /\ \E n \in 1..MaxFrames : \E fs \in [1..n -> Objects] :
       \E last \in {<<>>, OversizedPrefix} :
           /\ fs[1].type = "ack"
           /\ \A i \in 2..n : fs[i].type # "ack"
           /\ sentFrames = fs
           /\ stream = EncodeAll(fs) \o last
    /\ arrived = 0 /\ taken = 0
    /\ rpc = "len" /\ rbuf = <<>> /\ got = <<>> /\ need = 0 /\ decoded = <<>>
    /\ expired = 0
    /\ SideOff

NextStream ==
    \/ \E n \in 1..(MaxFrames * 9 + 4) : Arrive(n)
    \/ ReadStep

SpecStream == InitStream /\ [][NextStream]_vars

\* One frame: sendMessage writes the frame of a message m, and readMessage
\* reads it from a connection that carries nothing else.
InitRoundTrip ==
    /\ InitClient /\ SideOff
    /\ \E m \in Messages : sentFrames = <<m>> /\ stream = EncodeFrame(m)
    /\ arrived = 0 /\ taken = 0
    /\ rpc = "len" /\ rbuf = <<>> /\ got = <<>> /\ need = 0 /\ decoded = <<>>
    /\ expired = 0

SpecRoundTrip == InitRoundTrip /\ [][NextStream]_vars

\* The reader of one connection again, with the 60 s read deadline that
\* messageLoop sets before each readMessage.
MaxExpiries == 2          \* deadlines that expire

\* The deadline passes while readMessage waits for bytes: io.ReadFull
\* returns the timeout error and readMessage returns it, with the bytes it
\* had collected and its bufio.Reader; messageLoop continues and calls
\* readMessage again, which starts at a length prefix.  (The read of the
\* registration_ack, before messageLoop, has no deadline.)
ReadTimeout ==
    /\ rpc \in {"len", "data"}
    /\ decoded # <<>>
    /\ rbuf = <<>> /\ arrived = taken
    /\ expired < MaxExpiries
    /\ expired' = expired + 1
    /\ rpc' = "len" /\ got' = <<>> /\ need' = 0 /\ rbuf' = <<>>
    /\ UNCHANGED <<sentFrames, stream, arrived, taken, decoded>>
    /\ UNCHANGED <<clientVars, sideVars>>

NextDeadline ==
    \/ \E n \in 1..(MaxFrames * 9 + 4) : Arrive(n)
    \/ ReadStep
    \/ ReadTimeout

SpecDeadline == InitStream /\ [][NextDeadline]_vars

(***************************************************************************)
(* The resource monitor (package emitters, config.go 315-438): a ticker    *)
(* calls check(), which compares what the machine shows with the           *)
(* thresholds and hands events to Manager.Emit.                            *)
(***************************************************************************)

CheckInterval == 30       \* seconds
CpuThreshold == 80
MemThreshold == 85
DiskThreshold == 90
AlertCooldown == 5 * 60   \* seconds

MaxChecks == 8            \* ticks of the monitor followed

\* The process starts long after the zero time.Time that the lastAlert
\* fields hold at first.
StartTime == 2 * AlertCooldown

\* What a check can find: a percentage at its threshold or above it, and
\* statfs working or failing.  A tick comes an interval after the check
\* before it, or two intervals when the ticker dropped one.
Samples ==
    {Usage(c, m, d, ok) : c \in {50, 95}, m \in {MemThreshold, 95},
                          d \in {DiskThreshold, 95}, ok \in BOOLEAN}
Gaps == {CheckInterval, 2 * CheckInterval}

\* now.Sub(last) > r.alertCooldown
CooledDownAtCooldown(t, last) == t - last >= AlertCooldown

CooledDown(t, last) == t - last > AlertCooldown

MemAlert(t, u) == u.mem > MemThreshold /\ CooledDown(t, lastMemAlert)
DiskAlert(t, u) ==
    u.statfs /\ u.disk > DiskThreshold /\ CooledDown(t, lastDiskAlert)

Alert(kind, t) == [type |-> kind, at |-> t]

\* ResourceMonitor.check at a tick: memory first, then disk.
Check(gap, u) ==
    /\ checks < MaxChecks
    /\ LET t == now + gap
       IN  /\ now' = t
           /\ usage' = u
           /\ checks' = checks + 1
           /\ lastMemAlert' = IF MemAlert(t, u) THEN t ELSE lastMemAlert
           /\ lastDiskAlert' = IF DiskAlert(t, u) THEN t ELSE lastDiskAlert
           /\ alerts' = alerts
                  \o (IF MemAlert(t, u) THEN <<Alert("memory_high", t)>> ELSE <<>>)
                  \o (IF DiskAlert(t, u) THEN <<Alert("disk_high", t)>> ELSE <<>>)
    /\ UNCHANGED <<clientVars, streamVars, watchVars, agent, hostVars>>

InitMonitor ==
    /\ InitClient /\ StreamOff /\ WatcherOff /\ agent = <<>> /\ HostOff
    /\ now = StartTime /\ lastMemAlert = 0 /\ lastDiskAlert = 0
    /\ usage = NoUsage /\ checks = 0 /\ alerts = <<>>

NextMonitor == \E gap \in Gaps, u \in Samples : Check(gap, u)

SpecMonitor == InitMonitor /\ [][NextMonitor]_vars

(***************************************************************************)
(* The file watcher (package emitters, config.go 123-244): Start scans     *)
(* once, then at every tick; scan compares the modification times it finds *)
(* with f.fileStates and hands the differences to Manager.Emit.            *)
(***************************************************************************)

MaxScans == 3             \* calls of scan followed
MaxMtime == 3             \* modification times are 1..MaxMtime
Paths == {"a.txt", "b.txt"}
NoFile == 0               \* the path does not exist / is not in the map

Notice(kind, p, n) == [type |-> kind, path |-> p, scan |-> n]

\* Somebody writes a file of the watched directory (its modification time
\* can be any time, earlier ones included: a restored copy) or removes one.
Touch(p) ==
    /\ scans < MaxScans
    /\ \E t \in 1..MaxMtime :
           /\ t # files[p]
           /\ files' = [files EXCEPT ![p] = t]
    /\ UNCHANGED <<fileStates, scans, notices>>
    /\ UNCHANGED <<clientVars, streamVars, monVars, agent, hostVars>>

Remove(p) ==
    /\ scans < MaxScans
    /\ files[p] # NoFile
    /\ files' = [files EXCEPT ![p] = NoFile]
    /\ UNCHANGED <<fileStates, scans, notices>>
    /\ UNCHANGED <<clientVars, streamVars, monVars, agent, hostVars>>

\* A scan that reports every change of the modification time.
ModifiedIfDifferent(modTime, oldTime) == modTime # oldTime

\* Line 230: modTime.After(oldTime).
Modified(modTime, oldTime) == modTime > oldTime

\* FileWatcher.scan, as its n-th call: one emitEvent per path of the new
\* snapshot that is new or modified, one per path that is gone.
Scan(n) ==
    LET created == {p \in Paths : files[p] # NoFile /\ fileStates[p] = NoFile}
        modified == {p \in Paths : /\ files[p] # NoFile /\ fileStates[p] # NoFile
                                   /\ Modified(files[p], fileStates[p])}
        deleted == {p \in Paths : fileStates[p] # NoFile /\ files[p] = NoFile}
    IN  /\ notices' = notices
               (+) SetToBag({Notice("file_created", p, n) : p \in created})
               (+) SetToBag({Notice("file_modified", p, n) : p \in modified})
               (+) SetToBag({Notice("file_deleted", p, n) : p \in deleted})
        /\ fileStates' = files
        /\ scans' = n
        /\ UNCHANGED files
        /\ UNCHANGED <<clientVars, streamVars, monVars, agent, hostVars>>

\* Start: the initial scan.
WatcherStart == scans = 0 /\ Scan(1)

\* A tick of the watcher's ticker.
WatcherTick == scans >= 1 /\ scans < MaxScans /\ Scan(scans + 1)

\* NewFileWatcher, in a directory that holds any files already.
InitWatcher ==
    /\ InitClient /\ StreamOff /\ MonitorOff /\ agent = <<>> /\ HostOff
    /\ files \in [Paths -> {NoFile, 1}]
    /\ fileStates = [p \in Paths |-> NoFile]
    /\ scans = 0 /\ notices = EmptyBag

NextWatcher ==
    \/ \E p \in Paths : Touch(p)
    \/ \E p \in Paths : Remove(p)
    \/ WatcherStart
    \/ WatcherTick

SpecWatcher == InitWatcher /\ [][NextWatcher]_vars

(***************************************************************************)
(* The soul flag: config.Load (part_005 304-337), main (part_002 22-51),   *)
(* NewClient and sendRegistration (client.go 76-93, 164-177).  Two agents  *)
(* are started from environments that differ in DAEMON_IS_SOUL and         *)
(* ALFRED_ROOT only, and are sent requests.                                *)
(***************************************************************************)

MaxAnswers == 1           \* requests dispatched per agent
Agents == {1, 2}
Roots == {"", "/opt/alfred"}

DefaultCaps == {"shell", "files", "docker"}

\* config.Load: the flag and the root as the environment gives them; a soul
\* daemon is given two more capability labels.
Load(env) ==
    [IsSoulDaemon |-> env.soul,
     AlfredRoot |-> env.root,
     Capabilities |-> DefaultCaps \cup (IF env.soul THEN {"soul", "self-modify"} ELSE {})]

\* A main that registers one more handler for a soul daemon.
MainHandlersForSoul(cfg) ==
    IF cfg.IsSoulDaemon THEN Registered \cup {"self_modify"} ELSE Registered

\* main calls handlers.RegisterBuiltins(), which takes nothing from cfg.
MainHandlers(cfg) == Registered

\* main hands cfg to NewClient, which copies the fields.
NewClient(cfg) ==
    [capabilities |-> cfg.Capabilities,
     isSoulDaemon |-> cfg.IsSoulDaemon,
     ultronRoot |-> cfg.AlfredRoot]

\* The map sendRegistration builds.
RegistrationMessage(c) ==
    [type |-> "registration",
     capabilities |-> c.capabilities,
     is_soul_daemon |-> c.isSoulDaemon,
     ultron_root |-> c.ultronRoot]

NoMessage == RegistrationMessage(NewClient(Load([soul |-> FALSE, root |-> ""])))

\* main up to the call of Connect.
StartAgent(a) ==
    /\ agent[a].pc = "start"
    /\ agent' = [agent EXCEPT ![a].pc = "dial",
                              ![a].handlers = MainHandlers(Load(agent[a].env)),
                              ![a].client = NewClient(Load(agent[a].env))]
    /\ UNCHANGED <<clientVars, streamVars, monVars, watchVars, hostVars>>

\* sendRegistration writes its frame.
RegisterAgent(a) ==
    /\ agent[a].pc = "dial"
    /\ agent' = [agent EXCEPT ![a].pc = "serve",
                              ![a].frame = RegistrationMessage(agent[a].client)]
    /\ UNCHANGED <<clientVars, streamVars, monVars, watchVars, hostVars>>

\* A request of type t reaches agent a, whose handler behaves as b; the
\* result is what handleMessage sends.
DispatchTo(a, t, b) ==
    /\ agent[a].pc = "serve"
    /\ Cardinality(agent[a].answers) < MaxAnswers
    /\ b \in Behaviours(t)
    /\ HandlerCrash(t, b) = "none"
    /\ \A x \in agent[a].answers : x.type # t \/ x.how # b
    /\ agent' = [agent EXCEPT ![a].answers = @ \cup
           {[type |-> t, how |-> b,
             result |-> IF t \in agent[a].handlers
                        THEN HandleMessageResult(HandlerResult(b), CommandId(1), "d1")
                        ELSE HandleMessageResult(UnknownResult(t), CommandId(1), "d1")]}]
    /\ UNCHANGED <<clientVars, streamVars, monVars, watchVars, hostVars>>

InitSoul ==
    /\ InitClient /\ StreamOff /\ MonitorOff /\ WatcherOff /\ HostOff
    /\ \E envs \in [Agents -> [soul : BOOLEAN, root : Roots]] :
           agent = [a \in Agents |->
                       [pc |-> "start", env |-> envs[a], handlers |-> {},
                        client |-> NewClient(Load([soul |-> FALSE, root |-> ""])),
                        frame |-> NoMessage, answers |-> {}]]

NextSoul ==
    \/ \E a \in Agents : StartAgent(a)
    \/ \E a \in Agents : RegisterAgent(a)
    \/ \E a \in Agents, t \in RequestTypes \cup {"self_modify"}, b \in AllBehaviours :
           DispatchTo(a, t, b)

SpecSoul == InitSoul /\ [][NextSoul]_vars

(***************************************************************************)
(* The emitter manager: Manager.OnEvent, AddEmitter and Emit.  A callback  *)
(* is named after what it does when it runs.                               *)
(***************************************************************************)

MaxEmits == 2
MaxCallbacks == 3

\* "send" is main's callback (SendEvent, then return), "slow" never
\* returns, "subscribe" calls OnEvent, "add" calls AddEmitter and "reemit"
\* calls Emit.
CallbackNames == {"send", "slow", "subscribe", "add", "reemit"}

MaxGor == MaxEmits * MaxCallbacks

\* A call of Emit by `by` (0 is an emitter, g is the goroutine of a
\* callback); `before` keeps what was registered when the call was made.
EmitFrame(ev, by) ==
    [event |-> ev, by |-> by, before |-> callbacks, pc |-> "rlock",
     list |-> <<>>, i |-> 1]

\* An emitter observes a condition and calls Emit.
EmitCall ==
    /\ Len(emitCalls) < MaxEmits
    /\ emitCalls' = Append(emitCalls, EmitFrame(Len(emitCalls) + 1, 0))
    /\ UNCHANGED <<callbacks, emitters, mgrMu, gor>>
    /\ UNCHANGED exceptMgr

\* m.mu.RLock(): waits while a writer holds or awaits the lock.
EmitRLock(e) ==
    /\ emitCalls[e].pc = "rlock"
    /\ ~mgrMu.writer /\ mgrMu.pending = 0
    /\ mgrMu' = [mgrMu EXCEPT !.readers = @ + 1]
    /\ emitCalls' = [emitCalls EXCEPT ![e].pc = "held"]
    /\ UNCHANGED <<callbacks, emitters, gor>>
    /\ UNCHANGED exceptMgr

\* callbacks := m.callbacks; m.mu.RUnlock().
EmitCopy(e) ==
    /\ emitCalls[e].pc = "held"
    /\ mgrMu' = [mgrMu EXCEPT !.readers = @ - 1]
    /\ emitCalls' = [emitCalls EXCEPT ![e].pc = "loop", ![e].list = callbacks]
    /\ UNCHANGED <<callbacks, emitters, gor>>
    /\ UNCHANGED exceptMgr

GoroutinesOf(e) == {g \in 1..Len(gor) : gor[g].emit = e}

\* An Emit that calls cb(event) itself goes on when the callback returned.
ProceedsAfterCallback(e) == \A g \in GoroutinesOf(e) : gor[g].pc = "done"

\* go cb(event): the loop goes on at once.
MayProceed(e) == TRUE

\* One turn of the loop over the copied list.
EmitGo(e) ==
    /\ emitCalls[e].pc = "loop" /\ emitCalls[e].i <= Len(emitCalls[e].list)
    /\ MayProceed(e)
    /\ gor' = Append(gor, [emit |-> e, pos |-> emitCalls[e].i,
                           cb |-> emitCalls[e].list[emitCalls[e].i],
                           event |-> emitCalls[e].event, pc |-> "run"])
    /\ emitCalls' = [emitCalls EXCEPT ![e].i = @ + 1]
    /\ UNCHANGED <<callbacks, emitters, mgrMu>>
    /\ UNCHANGED exceptMgr

\* The loop is over: Emit returns.
EmitReturn(e) ==
    /\ emitCalls[e].pc = "loop" /\ emitCalls[e].i > Len(emitCalls[e].list)
    /\ MayProceed(e)
    /\ emitCalls' = [emitCalls EXCEPT ![e].pc = "returned"]
    /\ UNCHANGED <<callbacks, emitters, mgrMu, gor>>
    /\ UNCHANGED exceptMgr

\* The callback of main, or one that has nothing more to register or emit,
\* returns.
CallbackReturns(g) ==
    /\ gor[g].pc = "run"
    /\ \/ gor[g].cb = "send"
       \/ gor[g].cb = "subscribe" /\ Len(callbacks) >= MaxCallbacks
       \/ gor[g].cb = "add" /\ Len(emitters) >= MaxCallbacks
       \/ gor[g].cb = "reemit" /\ Len(emitCalls) >= MaxEmits
    /\ gor' = [gor EXCEPT ![g].pc = "done"]
    /\ UNCHANGED <<callbacks, emitters, mgrMu, emitCalls>>
    /\ UNCHANGED exceptMgr

\* OnEvent or AddEmitter in a callback: m.mu.Lock() is called ...
CallbackLock(g) ==
    /\ gor[g].pc = "run"
    /\ \/ gor[g].cb = "subscribe" /\ Len(callbacks) < MaxCallbacks
       \/ gor[g].cb = "add" /\ Len(emitters) < MaxCallbacks
    /\ gor' = [gor EXCEPT ![g].pc = "lock"]
    /\ mgrMu' = [mgrMu EXCEPT !.pending = @ + 1]
    /\ UNCHANGED <<callbacks, emitters, emitCalls>>
    /\ UNCHANGED exceptMgr

\* ... and returns when no reader and no writer holds the lock.
CallbackLocked(g) ==
    /\ gor[g].pc = "lock"
    /\ ~mgrMu.writer /\ mgrMu.readers = 0
    /\ gor' = [gor EXCEPT ![g].pc = "locked"]
    /\ mgrMu' = [mgrMu EXCEPT !.pending = @ - 1, !.writer = TRUE]
    /\ UNCHANGED <<callbacks, emitters, emitCalls>>
    /\ UNCHANGED exceptMgr

\* The append and the deferred Unlock.
CallbackAppend(g) ==
    /\ gor[g].pc = "locked"
    /\ IF gor[g].cb = "subscribe"
       THEN callbacks' = Append(callbacks, "send") /\ UNCHANGED emitters
       ELSE emitters' = Append(emitters, "file_watcher") /\ UNCHANGED callbacks
    /\ gor' = [gor EXCEPT ![g].pc = "done"]
    /\ mgrMu' = [mgrMu EXCEPT !.writer = FALSE]
    /\ UNCHANGED emitCalls
    /\ UNCHANGED exceptMgr

\* Emit called in a callback, and its return to the callback.
CallbackEmit(g) ==
    /\ gor[g].pc = "run" /\ gor[g].cb = "reemit"
    /\ Len(emitCalls) < MaxEmits
    /\ emitCalls' = Append(emitCalls, EmitFrame(Len(emitCalls) + 1, g))
    /\ gor' = [gor EXCEPT ![g].pc = "emit"]
    /\ UNCHANGED <<callbacks, emitters, mgrMu>>
    /\ UNCHANGED exceptMgr

CallbackEmitted(g) ==
    /\ gor[g].pc = "emit"
    /\ \E e \in 1..Len(emitCalls) :
           emitCalls[e].by = g /\ emitCalls[e].pc = "returned"
    /\ gor' = [gor EXCEPT ![g].pc = "done"]
    /\ UNCHANGED <<callbacks, emitters, mgrMu, emitCalls>>
    /\ UNCHANGED exceptMgr

EmitStep(e) ==
    /\ e <= Len(emitCalls)
    /\ EmitRLock(e) \/ EmitCopy(e) \/ EmitGo(e) \/ EmitReturn(e)

CallbackStep(g) ==
    /\ g <= Len(gor)
    /\ \/ CallbackReturns(g) \/ CallbackLock(g) \/ CallbackLocked(g)
       \/ CallbackAppend(g) \/ CallbackEmit(g) \/ CallbackEmitted(g)

\* main registered one or two callbacks and the resource monitor before
\* Start.
InitEmit ==
    /\ InitClient /\ StreamOff /\ MonitorOff /\ WatcherOff /\ agent = <<>>
    /\ StopOff /\ HandOff /\ HelpOff
    /\ callbacks \in UNION {[1..n -> CallbackNames] : n \in 1..(MaxCallbacks - 1)}
    /\ emitters = <<"resource_monitor">>
    /\ mgrMu = [writer |-> FALSE, readers |-> 0, pending |-> 0]
    /\ emitCalls = <<>> /\ gor = <<>>

\* The scheduler runs a goroutine that can take a step; every goroutine has
\* finitely many steps, so each one that is not blocked for ever gets its
\* turn.
Scheduled ==
    \/ \E e \in 1..MaxEmits : EmitStep(e)
    \/ \E g \in 1..MaxGor : CallbackStep(g)

NextEmit == EmitCall \/ Scheduled

SpecEmit == InitEmit /\ [][NextEmit]_vars /\ WF_vars(Scheduled)

(***************************************************************************)
(* Manager.Start and Manager.Stop, and the Start loop of each emitter: a   *)
(* select on ctx.Done() and the ticker's channel.                          *)
(***************************************************************************)

MaxStops == 2

EmitterNames == {"resource_monitor", "file_watcher"}

\* A loop is not started, about to begin, at its select, in check() or
\* scan(), or returned.  `tick` is what the ticker's channel of capacity one
\* holds: nothing, a tick that fired before the cancellation or one that
\* fired after it; `by` is what started the latest check or scan.
LoopOff == [pc |-> "off", tick |-> "none", by |-> "none"]

\* Manager.Start: a new context, one goroutine per emitter.
ManagerStart ==
    /\ \A x \in EmitterNames : loops[x].pc = "off"
    /\ mctx' = "live"
    /\ loops' = [x \in EmitterNames |-> [loops[x] EXCEPT !.pc = "begin"]]
    /\ UNCHANGED stops
    /\ UNCHANGED exceptStop

\* Manager.Stop: m.cancel() when there is one; e.Stop() only clears running.
ManagerStop ==
    /\ stops < MaxStops
    /\ stops' = stops + 1
    /\ mctx' = IF mctx = "none" THEN "none" ELSE "cancelled"
    /\ UNCHANGED loops
    /\ UNCHANGED exceptStop

\* Emitter.Start up to the loop: the watcher scans for its baseline, and the
\* ticker is made.
LoopBegin(x) ==
    /\ loops[x].pc = "begin"
    /\ loops' = [loops EXCEPT ![x] =
                    IF x = "file_watcher"
                    THEN [pc |-> "work", tick |-> "none", by |-> "baseline"]
                    ELSE [pc |-> "select", tick |-> "none", by |-> "none"]]
    /\ UNCHANGED <<mctx, stops>>
    /\ UNCHANGED exceptStop

\* The ticker fires while it is not stopped; the runtime drops the tick when
\* the channel is full.  The ticker is made after the baseline scan, and a
\* goroutine whose select can proceed runs before the next tick is due.
TickFires(x) ==
    /\ \/ loops[x].pc = "select" /\ mctx # "cancelled"
       \/ loops[x].pc = "work" /\ loops[x].by # "baseline"
    /\ loops[x].tick = "none"
    /\ loops' = [loops EXCEPT ![x].tick =
                    IF mctx = "cancelled" THEN "late" ELSE "early"]
    /\ UNCHANGED <<mctx, stops>>
    /\ UNCHANGED exceptStop

\* case <-ticker.C: a case that can proceed is chosen, also when ctx.Done()
\* can proceed as well.
LoopTakesTick(x) ==
    /\ loops[x].pc = "select" /\ loops[x].tick # "none"
    /\ loops' = [loops EXCEPT ![x] =
                    [pc |-> "work", tick |-> "none", by |-> loops[x].tick]]
    /\ UNCHANGED <<mctx, stops>>
    /\ UNCHANGED exceptStop

\* case <-ctx.Done(): return ctx.Err(), and the deferred ticker.Stop().
LoopReturns(x) ==
    /\ loops[x].pc = "select" /\ mctx = "cancelled"
    /\ loops' = [loops EXCEPT ![x].pc = "returned"]
    /\ UNCHANGED <<mctx, stops>>
    /\ UNCHANGED exceptStop

\* check() or scan() returns to the select.
WorkDone(x) ==
    /\ loops[x].pc = "work"
    /\ loops' = [loops EXCEPT ![x].pc = "select"]
    /\ UNCHANGED <<mctx, stops>>
    /\ UNCHANGED exceptStop

InitStop ==
    /\ InitClient /\ StreamOff /\ MonitorOff /\ WatcherOff /\ agent = <<>>
    /\ MgrOff /\ HandOff /\ HelpOff
    /\ mctx = "none" /\ stops = 0
    /\ loops = [x \in EmitterNames |-> LoopOff]

NextStop ==
    \/ ManagerStart
    \/ ManagerStop
    \/ \E x \in EmitterNames : LoopBegin(x)
    \/ \E x \in EmitterNames : TickFires(x)
    \/ \E x \in EmitterNames : LoopTakesTick(x)
    \/ \E x \in EmitterNames : LoopReturns(x)
    \/ \E x \in EmitterNames : WorkDone(x)

SpecStop == InitStop /\ [][NextStop]_vars

(***************************************************************************)
(* The built-in handlers as functions of their params and of the file      *)
(* system: shell, exec, read_file, write_file, delete_file, kill_process   *)
(* and manage_service.                                                     *)
(***************************************************************************)

MaxBytes == 3
MaxLine == 3

NL == "\n"
Bytes == {"a", "b", NL}
Contents == UNION {[1..n -> Bytes] : n \in 0..MaxBytes}

\* strings.Split(s, "\n") and strings.Join(lines, "\n").
RECURSIVE Split(_)
Split(s) ==
    IF \A i \in 1..Len(s) : s[i] # NL THEN <<s>>
    ELSE LET i == CHOOSE i \in 1..Len(s) :
                      s[i] = NL /\ \A j \in 1..(i - 1) : s[j] # NL
         IN  <<SubSeq(s, 1, i - 1)>> \o Split(SubSeq(s, i + 1, Len(s)))

RECURSIVE Join(_)
Join(lines) ==
    IF lines = <<>> THEN <<>>
    ELSE IF Len(lines) = 1 THEN lines[1]
    ELSE lines[1] \o <<NL>> \o Join(Tail(lines))

\* A Go int (64 bits) is u * 2^63 + k with a small k: MinInt is -2^63 and
\* MaxInt is 2^63 - 1.
GoInt(k) == [u |-> 0, k |-> k]
MinInt == [u |-> -1, k |-> 0]
MaxInt == [u |-> 1, k |-> -1]

\* a + b in 64 bits: the sum wraps around.
Add(a, b) ==
    LET u == a.u + b.u
        k == a.k + b.k
    IN  IF u >= 2 \/ (u = 1 /\ k >= 0) THEN [u |-> u - 2, k |-> k]
        ELSE IF u <= -2 \/ (u = -1 /\ k < 0) THEN [u |-> u + 2, k |-> k]
        ELSE [u |-> u, k |-> k]

Less(a, b) == a.u < b.u \/ (a.u = b.u /\ a.k < b.k)

\* A JSON number as params holds it, a float64: a small integer, or 1e19.
Num(k) == [huge |-> FALSE, k |-> k]
Huge == [huge |-> TRUE, k |-> 0]
Floats == {Num(k) : k \in -1..MaxLine} \cup {Huge}
Positive(f) == f.huge \/ f.k > 0

\* int(f): for a float64 out of the range of int the outcome depends on the
\* build, the smallest int on amd64 and the largest on arm64.
ToInt(f) ==
    IF ~f.huge THEN GoInt(f.k)
    ELSE IF arch = "amd64" THEN MinInt ELSE MaxInt

\* What a handler returns (its result map), and a handler that panicked.
NoResult == [kind |-> "none", success |-> FALSE, error |-> "", content |-> <<>>, size |-> 0]
Failure(err) ==
    [kind |-> "returned", success |-> FALSE, error |-> err, content |-> <<>>, size |-> 0]
Success(content) ==
    [kind |-> "returned", success |-> TRUE, error |-> "", content |-> content,
     size |-> Len(content)]
Panicked ==
    [kind |-> "panic", success |-> FALSE, error |-> "slice bounds out of range",
     content |-> <<>>, size |-> 0]

\* params with the zero value for whatever is absent or of another type.
Params(t) ==
    [type |-> t, command |-> "", path |-> "", pid |-> 0, service_name |-> "",
     offset |-> Num(0), limit |-> Num(0), content |-> <<>>, append |-> FALSE]

\* handleShell, and handleExec which calls it.
handleShell ==
    /\ outcome = NoResult /\ params.type \in {"shell", "exec"}
    /\ IF params.command = ""
       THEN outcome' = Failure("no command provided") /\ UNCHANGED effects
       ELSE /\ effects' = effects \cup {"spawned"}
            /\ outcome' \in {Success(<<>>), Failure("exit status 1")}
    /\ UNCHANGED <<arch, disk, params>>
    /\ UNCHANGED exceptHand

\* lines[start:end] panics unless 0 <= start <= end <= len(lines).
SliceInRange(start, end, n) ==
    /\ ~Less(start, GoInt(0)) /\ ~Less(end, start) /\ ~Less(GoInt(n), end)

handleReadFile ==
    /\ outcome = NoResult /\ params.type = "read_file"
    /\ IF params.path = ""
       THEN outcome' = Failure("no path provided") /\ UNCHANGED effects
       ELSE IF ~disk.exists \/ ~disk.readable
       THEN /\ outcome' = Failure("open: cannot read")
            /\ effects' = effects \cup {"read_failed"}
       ELSE LET lines == Split(disk.content)
                start == ToInt(params.offset)
                sum == Add(start, ToInt(params.limit))
                end == IF Positive(params.limit)
                       THEN IF Less(GoInt(Len(lines)), sum) THEN GoInt(Len(lines)) ELSE sum
                       ELSE GoInt(Len(lines))
            IN  /\ effects' = effects \cup {"read"}
                /\ outcome' =
                     IF Less(GoInt(0), start) \/ Positive(params.limit)
                     THEN IF Less(start, GoInt(Len(lines)))
                          THEN IF SliceInRange(start, end, Len(lines))
                               THEN Success(Join(SubSeq(lines, start.k + 1, end.k)))
                               ELSE Panicked
                          ELSE Success(Join(<<>>))
                     ELSE Success(disk.content)
    /\ UNCHANGED <<arch, disk, params>>
    /\ UNCHANGED exceptHand

\* Lines 180-191: f, err := os.OpenFile(...) declares a new err inside the
\* if block, so the err tested at line 191 is still nil.
AppendErr(failure) == ""

handleWriteFile ==
    /\ outcome = NoResult /\ params.type = "write_file"
    /\ UNCHANGED <<arch, params>>
    /\ UNCHANGED exceptHand
    /\ IF params.path = ""
       THEN outcome' = Failure("no path provided") /\ UNCHANGED <<effects, disk>>
       ELSE LET failure == IF ~disk.openable THEN "open: permission denied"
                           ELSE IF ~disk.writable THEN "write: no space left"
                           ELSE ""
                err == IF params.append THEN AppendErr(failure) ELSE failure
            IN  /\ effects' = effects \cup
                       (IF ~disk.openable THEN {"open_failed"}
                        ELSE IF ~disk.writable THEN {"opened", "write_failed"}
                        ELSE {"opened", "written"})
                /\ disk' =
                     IF ~disk.openable THEN disk
                     ELSE IF params.append
                     THEN [disk EXCEPT !.exists = TRUE,
                              !.content = IF disk.writable THEN @ \o params.content ELSE @]
                     ELSE [disk EXCEPT !.exists = TRUE,
                              !.content = IF disk.writable THEN params.content ELSE <<>>]
                /\ outcome' = IF err # "" THEN Failure(err) ELSE Success(<<>>)

handleDeleteFile ==
    /\ outcome = NoResult /\ params.type = "delete_file"
    /\ IF params.path = ""
       THEN outcome' = Failure("no path provided") /\ UNCHANGED <<effects, disk>>
       ELSE IF ~disk.exists
       THEN /\ outcome' = Failure("remove: no such file")
            /\ effects' = effects \cup {"remove_failed"} /\ UNCHANGED disk
       ELSE /\ outcome' = Success(<<>>)
            /\ effects' = effects \cup {"removed"}
            /\ disk' = [disk EXCEPT !.exists = FALSE, !.content = <<>>]
    /\ UNCHANGED <<arch, params>>
    /\ UNCHANGED exceptHand

\* A kill_process that takes only a negative pid for a missing one.
NoPidIfNegative(pid) == pid < 0

\* Line 347: pid == 0.
NoPid(pid) == pid = 0

handleKillProcess ==
    /\ outcome = NoResult /\ params.type = "kill_process"
    /\ IF NoPid(params.pid)
       THEN outcome' = Failure("no pid provided") /\ UNCHANGED effects
       ELSE /\ effects' = effects \cup {"signalled"}
            /\ outcome' \in {Success(<<>>), Failure("os: process already finished")}
    /\ UNCHANGED <<arch, disk, params>>
    /\ UNCHANGED exceptHand

handleManageService ==
    /\ outcome = NoResult /\ params.type = "manage_service"
    /\ IF params.service_name = ""
       THEN outcome' = Failure("no service_name provided") /\ UNCHANGED effects
       ELSE /\ effects' = effects \cup {"spawned"}
            /\ outcome' \in {Success(<<>>), Failure("exit status 1")}
    /\ UNCHANGED <<arch, disk, params>>
    /\ UNCHANGED exceptHand

\* Every request a handler is given below, and every file it may find.
Requests ==
    {[Params(t) EXCEPT !.command = c] : t \in {"shell", "exec"}, c \in {"", "ls"}}
    \cup {[Params("read_file") EXCEPT !.path = p, !.offset = o, !.limit = l] :
             p \in {"", "f"}, o \in Floats, l \in Floats}
    \cup {[Params("write_file") EXCEPT !.path = p, !.content = c, !.append = a] :
             p \in {"", "f"}, c \in {<<>>, <<"a">>}, a \in BOOLEAN}
    \cup {[Params("delete_file") EXCEPT !.path = p] : p \in {"", "f"}}
    \cup {[Params("kill_process") EXCEPT !.pid = n] : n \in {0, 42}}
    \cup {[Params("manage_service") EXCEPT !.service_name = n] : n \in {"", "nginx"}}

Disks ==
    {[exists |-> x, content |-> IF x THEN c ELSE <<>>, readable |-> r,
      openable |-> o, writable |-> w] :
         x \in BOOLEAN, c \in Contents, r \in BOOLEAN, o \in BOOLEAN, w \in BOOLEAN}

InitHandlers ==
    /\ InitClient /\ StreamOff /\ MonitorOff /\ WatcherOff /\ agent = <<>>
    /\ MgrOff /\ StopOff /\ HelpOff
    /\ arch \in {"amd64", "arm64"}
    /\ params \in Requests
    /\ disk \in Disks
    /\ params.type = "read_file" => disk.openable /\ disk.writable
    /\ params.type \in {"write_file", "delete_file"} =>
           disk.readable /\ Len(disk.content) <= 1 /\ arch = "amd64"
    /\ params.type \notin {"read_file", "write_file", "delete_file"} =>
           disk = [exists |-> FALSE, content |-> <<>>, readable |-> TRUE,
                   openable |-> TRUE, writable |-> TRUE] /\ arch = "amd64"
    /\ outcome = NoResult /\ effects = {}

NextHandlers ==
    \/ handleShell
    \/ handleReadFile
    \/ handleWriteFile
    \/ handleDeleteFile
    \/ handleKillProcess
    \/ handleManageService

SpecHandlers == InitHandlers /\ [][NextHandlers]_vars

(***************************************************************************)
(* The managers of the helper subprocesses (browser.Manager and            *)
(* computer.Manager): Start, Execute and ExecuteRaw around m.mu, a         *)
(* sync.Mutex, which does not know who locked it.                          *)
(***************************************************************************)

MaxCallers == 3

Callers == 1..MaxCallers

\* m.mu.Lock() by caller t.
Locked(t) == [helper EXCEPT !.locked = TRUE, !.owner = t]

\* m.mu.Unlock() by caller t: a fatal error of the runtime when the mutex is
\* not locked; otherwise the mutex is released, whoever locked it.
Unlocked(t) ==
    IF ~helper.locked THEN [helper EXCEPT !.fault = "fatal"]
    ELSE [helper EXCEPT !.locked = FALSE, !.owner = 0,
                        !.fault = IF helper.owner = t THEN @ ELSE "foreign"]

\* The runtime ends the process at the fatal error.
ProcessUp == helper.fault # "fatal"

\* Execute / ExecuteRaw: m.mu.Lock(); defer m.mu.Unlock().
ExecLock(t) ==
    /\ ProcessUp /\ callerPc[t] = "idle" /\ ~helper.locked
    /\ helper' = Locked(t)
    /\ callerPc' = [callerPc EXCEPT ![t] = "check"]
    /\ UNCHANGED exceptHelp

\* if !m.running { m.mu.Unlock(); ... }
ExecCheck(t) ==
    /\ ProcessUp /\ callerPc[t] = "check"
    /\ IF helper.running
       THEN callerPc' = [callerPc EXCEPT ![t] = "send"] /\ UNCHANGED helper
       ELSE /\ helper' = Unlocked(t)
            /\ callerPc' = [callerPc EXCEPT ![t] = "start"]
    /\ UNCHANGED exceptHelp

\* m.Start(): m.mu.Lock(); defer m.mu.Unlock().
StartLock(t) ==
    /\ ProcessUp /\ callerPc[t] = "start" /\ ~helper.locked
    /\ helper' = Locked(t)
    /\ callerPc' = [callerPc EXCEPT ![t] = "starting"]
    /\ UNCHANGED exceptHelp

\* The body of Start and its deferred Unlock: nothing to do when the
\* subprocess runs; otherwise the script is found and answers ready, or not.
StartBody(t, ok) ==
    /\ ProcessUp /\ callerPc[t] = "starting"
    /\ helper.running => ok
    /\ helper' = [Unlocked(t) EXCEPT !.running = helper.running \/ ok]
    /\ callerPc' = [callerPc EXCEPT ![t] = IF ok THEN "relock" ELSE "failed"]
    /\ UNCHANGED exceptHelp

\* Start failed: return nil, err, which runs the deferred m.mu.Unlock().
ExecFailed(t) ==
    /\ ProcessUp /\ callerPc[t] = "failed"
    /\ helper' = Unlocked(t)
    /\ callerPc' = [callerPc EXCEPT ![t] = "error"]
    /\ UNCHANGED exceptHelp

\* Start succeeded: m.mu.Lock() again.
ExecRelock(t) ==
    /\ ProcessUp /\ callerPc[t] = "relock" /\ ~helper.locked
    /\ helper' = Locked(t)
    /\ callerPc' = [callerPc EXCEPT ![t] = "send"]
    /\ UNCHANGED exceptHelp

\* sendCommand: m.stdin.Write(...), then m.stdout.ReadString('\n').
ExecWrite(t) ==
    /\ ProcessUp /\ callerPc[t] = "send"
    /\ callerPc' = [callerPc EXCEPT ![t] = "wait"]
    /\ UNCHANGED helper
    /\ UNCHANGED exceptHelp

\* The answer is read and Execute returns: the deferred m.mu.Unlock().
ExecAnswered(t) ==
    /\ ProcessUp /\ callerPc[t] = "wait"
    /\ helper' = Unlocked(t)
    /\ callerPc' = [callerPc EXCEPT ![t] = "done"]
    /\ UNCHANGED exceptHelp

InitHelper ==
    /\ InitClient /\ StreamOff /\ MonitorOff /\ WatcherOff /\ agent = <<>>
    /\ MgrOff /\ StopOff /\ HandOff
    /\ helper = [locked |-> FALSE, owner |-> 0, running |-> FALSE, fault |-> "none"]
    /\ callerPc = [t \in Callers |-> "idle"]

NextHelper ==
    \/ \E t \in Callers : ExecLock(t)
    \/ \E t \in Callers : ExecCheck(t)
    \/ \E t \in Callers : StartLock(t)
    \/ \E t \in Callers, ok \in BOOLEAN : StartBody(t, ok)
    \/ \E t \in Callers : ExecFailed(t)
    \/ \E t \in Callers : ExecRelock(t)
    \/ \E t \in Callers : ExecWrite(t)
    \/ \E t \in Callers : ExecAnswered(t)

SpecHelper == InitHelper /\ [][NextHelper]_vars

(***************************************************************************)
(* Properties.                                                             *)
(***************************************************************************)

AllOf(seq, what) == \A i \in 1..Len(seq) : seq[i] = what

\* Connect is about to wait after a failure of kind `what`, and every attempt
\* since the start (fresh) or since Serving was last entered failed that way.
WaitingAfter(what) == pc = "backoff" /\ streak # <<>> /\ AllOf(streak, what)
Fresh == Len(streak) = attempts

\* C1: from a fresh client, the wait after the k-th consecutive dial failure
\* is min(2^(k-1), 60) s, and the delay is always between 1 s and 60 s.
C1_DialBackoffSequence ==
    /\ reconnectDelay >= InitialDelay /\ reconnectDelay <= MaxReconnect
    /\ WaitingAfter("dial") /\ Fresh
           => reconnectDelay = Min(Pow2(Len(streak) - 1), MaxReconnect)

C1_SeventhWaitCapped ==
    WaitingAfter("dial") /\ Fresh /\ Len(streak) >= 7 /\ reconnectDelay = MaxReconnect

\* C2: attempts that fail at registration (the dial succeeded) count as
\* consecutive failures: the wait after the k-th of them is min(2^(k-1), 60) s.
C2_RegistrationFailuresBackOff ==
    WaitingAfter("reg") => reconnectDelay = Min(Pow2(Len(streak) - 1), MaxReconnect)

\* C3: Connect returns only when ctx is cancelled, and after every failure
\* (connectOnce is unwinding or Connect waits in backoff) with ctx not
\* cancelled another dial attempt is eventually made.
Failed == pc \in {"unset", "backoff"}
C3_ReconnectsForever ==
    /\ [](pc = "returned" => ctxDone)
    /\ (Failed /\ ~ctxDone /\ attempts < MaxConns) ~> (pc = "dial" \/ ctxDone)

IsPrefix(a, b) == Len(a) <= Len(b) /\ SubSeq(b, 1, Len(a)) = a

\* Every byte of the stream has arrived and has been read.
StreamDrained == arrived = Len(stream) /\ taken = arrived /\ rbuf = <<>>

\* C6: the frames written back-to-back are decoded as the same objects in the
\* same order, however the bytes are split across socket reads: no frame is
\* lost, duplicated or reordered.
C6_StreamDecodedInOrder ==
    /\ IsPrefix(decoded, sentFrames)
    /\ StreamDrained => decoded = sentFrames

\* Positions <<k, j>> of the frames written on the wire by sender s.
FramesBy(s) ==
    UNION {{<<k, j>> : j \in {n \in 1..Len(wire[k]) :
                                  wire[k][n].half = "data" /\ wire[k][n].by = s}}
           : k \in ConnIds}
Results(i) == Cardinality(FramesBy(ReqSender(i)))
Ended(i) == snd[ReqSender(i)].pc \in {"sent", "failed"}
HeartbeatStarted(k) == snd[HbSender(k)].pc # "off"

\* C4: Serving is entered on a connection (heartbeat goroutine started,
\* frames dispatched) only if the first frame read on it was a
\* registration_ack with success true; after any other first frame the
\* connection is closed, connectOnce unwinds to the backoff, and no frame of
\* that connection reaches a handler.
C4_ServingOnlyAfterAck ==
    /\ pc = "serve" => first[conn] = "ack_ok"
    /\ \A k \in ConnIds : HeartbeatStarted(k) => first[k] = "ack_ok"
    /\ \A i \in 1..nextReq : first[req[i].conn] = "ack_ok"
    /\ \A k \in ConnIds : first[k] \notin {"none", "ack_ok"} =>
           /\ k \in closed
           /\ conn = k => pc = "unset"
           /\ ~HeartbeatStarted(k)
           /\ \A i \in 1..nextReq : req[i].conn # k

C4_RejectedThenServed ==
    \E k1, k2 \in ConnIds :
        /\ first[k1] \in {"ack_reject", "other"}
        /\ first[k2] = "ack_ok" /\ HeartbeatStarted(k2)
        /\ \E i \in 1..nextReq : req[i].conn = k2

\* C5: on every connection nothing but the registration frame is written
\* before the first frame (the ack) has been read.
C5_RegistrationFirst ==
    \A k \in ConnIds : \A j \in 1..Len(wire[k]) :
        (first[k] = "none" \/ j <= acked[k]) => wire[k][j].by = RegSender

\* C7: on every connection each length prefix is directly followed by the
\* payload of the same frame of the same sender (or is being followed: its
\* sender still holds the lock, or the connection was closed under it), and
\* each payload directly follows its prefix.
C7_FramesContiguous ==
    \A k \in ConnIds : \A j \in 1..Len(wire[k]) :
        LET item == wire[k][j] IN
        /\ item.half = "len" /\ j < Len(wire[k]) =>
               wire[k][j + 1] = [item EXCEPT !.half = "data"]
        /\ item.half = "len" /\ j = Len(wire[k]) =>
               snd[item.by].pc = "data" \/ k \in closed
        /\ item.half = "data" =>
               j > 1 /\ wire[k][j - 1] = [item EXCEPT !.half = "len"]

C7_WriterWaitsForWriter ==
    \E s1, s2 \in Senders :
        /\ snd[s1].pc = "data" /\ mu = s1 /\ snd[s2].pc = "lock"
        /\ conn # 0 /\ conn \notin closed
        /\ \E j \in 1..Len(wire[conn]) :
               wire[conn][j].half = "data" /\ wire[conn][j].by \notin {RegSender, s1, s2}

\* C8: every frame handleMessage writes has type "result", the command_id
\* of the request it answers and the c.daemonID handleMessage read, whatever
\* keys the handler set in its map.
C8_ResultCarriesIds ==
    \A k \in ConnIds : \A j \in 1..Len(wire[k]) :
        wire[k][j].by[1] = "h" =>
            LET i == wire[k][j].by[2]
                m == wire[k][j].msg
            IN  /\ m.type = "result"
                /\ m.command_id = CommandId(i) /\ m.command_id = req[i].command_id
                /\ m.daemon_id = req[i].id

C8_RogueHandlerAnswered ==
    \E i \in 1..nextReq :
        /\ req[i].type = "plugin" /\ Results(i) = 1
        /\ HandlerResult("rogue").command_id # req[i].command_id

C10_HandlersNeverEndTheProcess ==
    crash \notin {"handler_panic", "nil_result"}

\* The frame handleMessage of request i has built, once Handle has returned.
Answered(i) == snd[ReqSender(i)].pc \in {"check", "lock", "data", "sent", "failed"}
Answer(i) == snd[ReqSender(i)].msg

\* C11: for a request type with no registered handler, Handle returns
\* success false with the error "unknown command type: <name>", naming the
\* type, and calls no handler function; that is the result put on the wire.
C11_UnknownTypeNamed ==
    \A i \in 1..nextReq :
        req[i].type \notin Registered /\ Answered(i) =>
            /\ Answer(i).success = "false"
            /\ Answer(i).error = "unknown command type: " \o req[i].type
            /\ ~req[i].called
            /\ \A p \in FramesBy(ReqSender(i)) : wire[p[1]][p[2]].msg = Answer(i)

C11_TeleportRefused ==
    \E i \in 1..nextReq :
        /\ req[i].type = "teleport" /\ Results(i) = 1 /\ ~req[i].called
        /\ Answer(i).error = "unknown command type: teleport"

\* The result of request i reports a handler-level failure.
FailureResult(i) == Answered(i) /\ Answer(i).success = "false"

\* C12: a result with success false (the unknown-command result included) is
\* sent as a normal result frame with its error message, and no step of its
\* handleMessage touches the session: the connection is not closed, Connect
\* stays where it is, the heartbeater is not cancelled, the delay is kept.
C12_FailureKeepsSession ==
    /\ [](\A i \in 1..nextReq : FailureResult(i) =>
             /\ Answer(i).type = "result" /\ Answer(i).error # Absent
             /\ Ended(i) /\ req[i].conn \notin closed => Results(i) = 1)
    /\ [][\A i \in 1..MaxRequests :
             (/\ snd'[ReqSender(i)] # snd[ReqSender(i)]
              /\ snd'[ReqSender(i)].msg.success = "false")
                 => UNCHANGED <<pc, conn, closed, hbCancelled, reconnectDelay, crash>>]_vars

\* A failure was answered, and a request read on the same connection after
\* that answer was written has been answered too.
C12_ServedAfterFailure ==
    \E i, j \in 1..nextReq :
        /\ FailureResult(i) /\ Results(i) = 1
        /\ req[j].conn = req[i].conn /\ Results(j) = 1
        /\ \E p \in FramesBy(ReqSender(i)) : p[1] = req[j].conn /\ p[2] <= req[j].at
        /\ pc = "serve" /\ conn = req[i].conn /\ conn \notin closed
        /\ reconnectDelay = InitialDelay

\* C13: while the handler of a request is running, the reader can take the
\* next frame and dispatch it, every other handleMessage can take its next
\* step (return, check, write), and each result on the wire carries the
\* command_id of its own request.
C13_SlowHandlerBlocksNobody ==
    \A a \in 1..nextReq : Alive /\ snd[ReqSender(a)].pc = "run" =>
        /\ (pc = "serve" /\ conn \notin closed /\ mu = Free /\ nextReq < MaxRequests)
               => ENABLED ServeRequest("ping", MaxRequests)
        /\ \A b \in 1..nextReq : b # a =>
               /\ snd[ReqSender(b)].pc = "run" =>
                      \E x \in AllBehaviours : ENABLED HandlerReturn(b, x)
               /\ snd[ReqSender(b)].pc = "check" /\ mu = Free => ENABLED SendCheck(ReqSender(b))
               /\ snd[ReqSender(b)].pc = "lock" /\ mu = Free => ENABLED SendLength(ReqSender(b))
               /\ snd[ReqSender(b)].pc = "data" => ENABLED SendData(ReqSender(b))
               /\ \A p \in FramesBy(ReqSender(b)) :
                      wire[p[1]][p[2]].msg.command_id = req[b].command_id

\* The later request is answered while the earlier handler is still running.
C13_LaterAnsweredFirst ==
    \E a, b \in 1..nextReq :
        /\ a < b /\ req[a].conn = req[b].conn
        /\ snd[ReqSender(a)].pc = "run" /\ Results(a) = 0
        /\ Results(b) = 1 /\ Answer(b).command_id = CommandId(b)

\* C14: when the connection a request came on had been torn down by the time
\* its handler returned, the result is discarded: it is written nowhere, in
\* particular not on a connection made by a later dial.
C14_LateResultDiscarded ==
    \A i \in 1..nextReq : Answered(i) /\ ~req[i].up => Results(i) = 0

\* C20: a heartbeat frame is on the wire of a connection only if it was
\* written by the heartbeater of that connection's session, after the
\* registration on it had succeeded.
C20_HeartbeatsWithinSession ==
    \A k \in ConnIds : \A j \in 1..Len(wire[k]) :
        wire[k][j].by[1] = "hb" =>
            /\ wire[k][j].by = HbSender(k)
            /\ first[k] = "ack_ok" /\ j > acked[k]

\* A sendMessage of a result failed on the connection that is being served.
SendFailedWhileServing ==
    /\ pc = "serve" /\ conn \notin closed
    /\ \E i \in 1..nextReq : req[i].conn = conn /\ snd[ReqSender(i)].pc = "failed"

\* C15: when a send fails while Serving, the session ends: Connect leaves
\* messageLoop (heartbeat cancelled, socket closed, backoff), without that
\* taking a cancellation or the end of the process.
C15_SendErrorEndsSession ==
    SendFailedWhileServing ~> (pc # "serve" \/ ctxDone \/ crash # "none")

\* C16: once ctx is cancelled Connect returns, by the cancellation alone:
\* without main closing the connection under it (and unless the process has
\* died).
C16_CancelReturns ==
    ctxDone ~> (pc = "returned" \/ mainPc # "stop" \/ crash # "none")

\* C17: Connect does not wait for the registration ack forever: with the
\* registration frame sent, it leaves sendRegistration even if the controller
\* never answers (and without a cancellation or the end of the process).
C17_AckWaitEnds ==
    (pc = "reg" /\ snd[RegSender].pc = "sent")
        ~> (pc # "reg" \/ ctxDone \/ crash # "none")

\* Connect waits after a session that had reached Serving.
WaitingAfterSession == pc = "backoff" /\ attempts > 0 /\ first[attempts] = "ack_ok"

\* C18: the wait that follows a session that reached Serving is 1 s.
C18_FirstWaitAfterSession ==
    WaitingAfterSession => reconnectDelay = InitialDelay

\* Three dials failed (waits of 1, 2 and 4 s, the delay stood at 8 s), the
\* fourth led to Serving, and the session has ended.
C18_AfterThreeFailedDials ==
    /\ WaitingAfterSession /\ attempts = 4
    /\ \A k \in 1..3 : first[k] = "none" /\ wire[k] = <<>>
    /\ reconnectDelay = InitialDelay

\* C19: readMessage never goes on to allocate and read the payload of a
\* frame whose length prefix exceeds the maximum message size: such a prefix
\* stops the reader.
C19_OversizedFrameRefused ==
    rpc = "data" => need <= MaxMessageSize

\* An event of the kind was handed out at most a cooldown before the
\* latest check.
AlertedLately(kind) ==
    \E i \in 1..Len(alerts) :
        alerts[i].type = kind /\ now - alerts[i].at <= AlertCooldown

\* C21: two events of the same kind are more than the cooldown (5 min)
\* apart, and a kind that is above its threshold at a check is reported at
\* that check unless an event of that same kind was emitted within the last
\* cooldown: the cooldown of the other kind neither suppresses nor delays it.
C21_OnePerKindAndCooldown ==
    /\ \A i, j \in 1..Len(alerts) :
           i < j /\ alerts[i].type = alerts[j].type
               => alerts[j].at - alerts[i].at > AlertCooldown
    /\ checks > 0 /\ usage.mem > MemThreshold => AlertedLately("memory_high")
    /\ checks > 0 /\ usage.statfs /\ usage.disk > DiskThreshold
           => AlertedLately("disk_high")

\* Memory stays high: a second memory_high follows the first, with a
\* disk_high in between while memory's cooldown was running.
C21_SecondMemoryAlertAfterDisk ==
    \E i, j, k \in 1..Len(alerts) :
        /\ i < j /\ j < k
        /\ alerts[i].type = "memory_high" /\ alerts[k].type = "memory_high"
        /\ alerts[j].type = "disk_high"
        /\ alerts[j].at > alerts[i].at
        /\ alerts[j].at - alerts[i].at <= AlertCooldown

\* C23: when the cpu is above its threshold at a check and no cpu_high was
\* emitted within the last cooldown, a cpu_high event is emitted.
C23_CpuHighEmitted ==
    checks > 0 /\ usage.cpu > CpuThreshold => AlertedLately("cpu_high")

\* C22: the scan that Start makes emits nothing, whatever files exist
\* already; every event comes from a later tick.
C22_InitialScanSilent == \A n \in BagToSet(notices) : n.scan > 1

\* C24: a request dispatched to a handler that runs an external process gets
\* its handler's return (and with it a result to send), even if the process
\* never terminates by itself.
C24_ExternalHandlersReturn ==
    \A i \in 1..MaxRequests :
        (snd[ReqSender(i)].pc = "run" /\ req[i].type \in External)
            ~> (snd[ReqSender(i)].pc # "run" \/ crash # "none" \/ mainPc = "exited")

C26_FrameRoundTrip ==
    /\ Len(stream) = 4 + Uint32(SubSeq(stream, 1, 4))
    /\ SubSeq(stream, 5, Len(stream)) = Marshal(sentFrames[1])
    /\ StreamDrained => decoded = <<sentFrames[1]>>

\* C27: a read deadline that expires inside readMessage leaves the reader
\* where it was, with the bytes it had received: the frame is completed by
\* the bytes that arrive later.
C27_TimeoutKeepsBytes ==
    [][expired' > expired => got' = got /\ rpc' = rpc /\ need' = need]_vars

\* messageLoop has returned from a session that was Serving, and
\* connectOnce is unwinding.
EndedServing == pc = "unset" /\ conn # 0 /\ first[conn] = "ack_ok"

\* C28: when the reader fails while Serving the session ends: the
\* heartbeater is cancelled and the socket closed, no frame is dispatched
\* from then on, the stored connection is cleared before the wait, and
\* (unless ctx is cancelled) the agent dials again.
C28_ReadErrorEndsSession ==
    /\ [](EndedServing => conn \in closed /\ conn \in hbCancelled)
    /\ [](pc = "backoff" => conn = 0)
    /\ [][nextReq' > nextReq => pc = "serve" /\ conn \notin closed]_vars
    /\ (EndedServing /\ ~ctxDone /\ attempts < MaxConns) ~> (pc = "dial" \/ ctxDone)

\* C29: once ctx is cancelled no frame is handed to a handler, and the
\* process does not exit while a handler is running.
C29_NoDispatchAfterCancel ==
    /\ [][nextReq' > nextReq => ~ctxDone]_vars
    /\ [](mainPc = "exited" => \A i \in 1..MaxRequests : snd[ReqSender(i)].pc # "run")

\* C30: no send ever writes through the nil connection that the teardown
\* leaves behind.
C30_SendNeverThroughNil == crash # "nil_conn"

\* C31: a heartbeat, event or result frame written on a connection after
\* its registration_ack carries the daemon_id that ack assigned, never the
\* id of an earlier session (a frame stamped before the first ack of the
\* process, with no id at all, is left aside).
C31_FramesCarrySessionId ==
    \A k \in ConnIds : \A j \in 1..Len(wire[k]) :
        /\ wire[k][j].half = "data" /\ wire[k][j].by # RegSender
        /\ first[k] = "ack_ok" /\ j > acked[k]
        /\ wire[k][j].msg.daemon_id # ""
        => wire[k][j].msg.daemon_id = MintedId(k)

\* C33: a scan after the baseline emits exactly one file_created for each
\* path that is in the new snapshot only, one file_deleted for each path in
\* the old one only, one file_modified for each path in both whose
\* modification time is strictly later, and nothing else; the stored
\* snapshot is the new one afterwards.
C33_TickEmitsTheDiff ==
    [][scans' > scans /\ scans >= 1 =>
        /\ fileStates' = files
        /\ \A x \in BagToSet(notices') :
               /\ x.scan # scans' => CopiesIn(x, notices') = CopiesIn(x, notices)
               /\ x.scan = scans' =>
                      /\ x.path \in Paths
                      /\ x.type \in {"file_created", "file_modified", "file_deleted"}
        /\ \A p \in Paths :
               /\ CopiesIn(Notice("file_created", p, scans'), notices')
                      = IF files[p] # NoFile /\ fileStates[p] = NoFile THEN 1 ELSE 0
               /\ CopiesIn(Notice("file_deleted", p, scans'), notices')
                      = IF files[p] = NoFile /\ fileStates[p] # NoFile THEN 1 ELSE 0
               /\ CopiesIn(Notice("file_modified", p, scans'), notices')
                      = IF /\ files[p] # NoFile /\ fileStates[p] # NoFile
                           /\ files[p] > fileStates[p]
                        THEN 1 ELSE 0
    ]_vars

\* A tick found one file written again and the other removed, and an
\* earlier or later tick found a new file; a file whose modification time
\* went back was stored without an event.
C33_EveryKindAfterBaseline ==
    /\ \E x \in BagToSet(notices) : x.type = "file_modified" /\ x.scan > 1
    /\ \E x \in BagToSet(notices) : x.type = "file_deleted" /\ x.scan > 1
    /\ \E x \in BagToSet(notices) : x.type = "file_created" /\ x.scan > 1
    /\ scans = MaxScans

\* C32: when Emit has returned it has started exactly one goroutine for
\* every callback registered before the call, with the event of the call;
\* every call of Emit returns, also when a callback never does, and every
\* callback that registers, adds or emits in its turn gets the lock and ends
\* (again and again all calls have returned and all such callbacks ended).
C32_EmitFansOutOnce ==
    /\ [](\A e \in 1..Len(emitCalls) : emitCalls[e].pc = "returned" =>
             \A j \in 1..Len(emitCalls[e].before) :
                 /\ Cardinality({g \in GoroutinesOf(e) : gor[g].pos = j}) = 1
                 /\ \A g \in GoroutinesOf(e) : gor[g].pos = j =>
                        /\ gor[g].cb = emitCalls[e].before[j]
                        /\ gor[g].event = emitCalls[e].event)
    /\ []<>(/\ \A e \in 1..Len(emitCalls) : emitCalls[e].pc = "returned"
             /\ \A g \in 1..Len(gor) : gor[g].cb # "slow" => gor[g].pc = "done")

\* Emit has returned while a callback it started is still running, another
\* of its callbacks has registered a callback, and an Emit called from a
\* callback has returned too.
C32_ReturnedWhileCallbackRuns ==
    \E e \in 1..Len(emitCalls) :
        /\ emitCalls[e].pc = "returned" /\ emitCalls[e].by = 0
        /\ \E g \in GoroutinesOf(e) : gor[g].cb = "slow" /\ gor[g].pc = "run"
        /\ \E g \in GoroutinesOf(e) : gor[g].cb = "subscribe" /\ gor[g].pc = "done"
        /\ Len(callbacks) > Len(emitCalls[e].before)

\* C34: no check or scan is started by a tick that fired after Manager.Stop
\* cancelled the context.
C34_NoWorkByLateTick ==
    \A x \in DOMAIN loops : loops[x].pc = "work" => loops[x].by # "late"

\* C35: write_file returns success:true only when the content was written,
\* in append mode as in overwrite mode.
C35_WriteFailureReported ==
    outcome # <<>> /\ params.type = "write_file" /\ outcome.kind = "returned"
        /\ outcome.success
    => "written" \in effects

\* C36: read_file returns a outcome for every offset and limit; it never
\* panics.
C36_ReadFileNeverPanics ==
    outcome # <<>> /\ params.type = "read_file" => outcome.kind # "panic"

NonNegative(f) == f.huge \/ f.k >= 0

\* The lines of `content` with zero-based index i, offset <= i < offset +
\* limit (to the last line when limit is 0), joined by newlines; the content
\* itself when both are 0 and nothing when offset is not below the number of
\* lines.
Window(content, offset, limit) ==
    LET lines == Split(content)
        n == Len(lines)
    IN  IF offset = Num(0) /\ limit = Num(0) THEN content
        ELSE IF offset.huge \/ offset.k >= n THEN <<>>
        ELSE LET last == IF limit.huge \/ limit.k = 0 \/ offset.k + limit.k > n
                         THEN n ELSE offset.k + limit.k
             IN  Join(SubSeq(lines, offset.k + 1, last))

\* C37: for a readable file and integers offset >= 0 and limit >= 0,
\* read_file returns the window of lines from offset, limit lines long, and
\* size is the byte length of what it returns.
C37_ReadFileWindow ==
    /\ outcome # <<>> /\ params.type = "read_file" /\ outcome.kind # "none"
    /\ params.path # "" /\ disk.exists /\ disk.readable
    /\ NonNegative(params.offset) /\ NonNegative(params.limit)
    => /\ outcome.kind = "returned" /\ outcome.success
       /\ outcome.content = Window(disk.content, params.offset, params.limit)
       /\ outcome.size = Len(outcome.content)

\* The request lacks the parameter its handler requires.
LacksRequired(p) ==
    \/ p.type \in {"shell", "exec"} /\ p.command = ""
    \/ p.type \in {"read_file", "write_file", "delete_file"} /\ p.path = ""
    \/ p.type = "kill_process" /\ p.pid = 0
    \/ p.type = "manage_service" /\ p.service_name = ""

\* C38: the handler of a request that lacks its required parameter returns
\* success:false with an error string and does nothing else: no system call
\* is made and the file stays as it was.
C38_MissingParameterRefused ==
    [][LacksRequired(params) =>
          /\ outcome'.kind = "returned" /\ ~outcome'.success
          /\ outcome'.error # ""
          /\ effects' = {} /\ disk' = disk]_vars

\* kill_process without a pid has been refused, with a file on the disk
\* and nothing signalled.
C38_KillWithoutPidRefused ==
    /\ outcome # <<>> /\ params.type = "kill_process" /\ params.pid = 0
    /\ outcome.kind = "returned" /\ outcome.error = "no pid provided"

\* C39: Execute and ExecuteRaw never unlock the manager's mutex while the
\* caller does not hold it, and at most one command at a time is written to
\* the subprocess and waits for its answer.
C39_MutexDiscipline ==
    helper # <<>> =>
        /\ helper.fault = "none"
        /\ Cardinality({t \in Callers : callerPc[t] = "wait"}) <= 1

====
